---- MODULE Spec2Model ----
(***************************************************************************)
(* A model of the eCFR analyzer: the resumable ingestion of an agency's    *)
(* search results (app/main.py), the corpus client (services/ecfr_api.py)  *)
(* and the metrics engine (services/metrics_service.py), over a store with *)
(* SQLAlchemy sessions created by sessionmaker(autoflush=False).           *)
(***************************************************************************)
EXTENDS Integers, Sequences, FiniteSets, TLC

\* ------------------------------------------------------------------ bounds
MaxItems == 2      \* results in the external corpus
MaxSIdx == 3       \* distinct structure_index values the corpus uses
MaxPerPage == 2    \* largest per_page a caller passes
MaxDay == 2        \* calendar days a behaviour spans
MaxCopies == 2     \* descriptor rows the store can hold per structure_index
MaxRecs == 2       \* progress records the store can hold
MaxThreads == 3    \* request handlers / background tasks alive at once
MaxStart == 1      \* largest start_page a caller passes
MaxDocs == 2       \* AgencyDocument rows
MaxConts == 2      \* DocumentContent rows a metrics run reads
MaxText == 2       \* characters of a text
MaxCalls == 2      \* direct calls of compute_and_store_metrics
MaxWorkers == 3    \* largest workers argument, and the pool threads
MaxRuns == 2       \* metrics runs
MaxLen == 4        \* characters of an analysed text or word
MaxSentences == 31 \* sentences of a long text
MaxBuild == 3      \* sentences, words a sentence, syllables a word
MaxYear == 1       \* target years a caller passes (0: none)
MaxPlan == 12      \* workers argument and discovered items of a batch plan

\* -------------------------------------------------------- program constants
NOT_PROCESSED == 0
PROCESSING == 1
COMPLETED == 2
ERROR == 3
NOT_STARTED == 0
IN_PROGRESS == 1
COMPLETE == 2

Threads == 1..MaxThreads
\* A descriptor's id: the structure_index it was created for and a serial
DescIds == (1..MaxSIdx) \X (1..MaxCopies)
NoId == <<0, 0>>
RecIds == 1..MaxRecs
Days == 1..MaxDay
SIdx == 1..MaxSIdx
PerPages == 1..MaxPerPage
Years == 0..MaxYear
\* A version date: 0 is the date the descriptor carries (ends_on, else
\* starts_on); d > 0 is the calendar day d, used when it carries none.
VDates == 0..MaxDay
Keys == DescIds \X VDates

VARIABLES
    corpus,     \* the external corpus: the results of the search API, in order
    today,      \* the calendar day
    descs,      \* committed agency_title_search_descriptors rows
    contents,   \* committed document_contents rows: key -> number of rows
    recs,       \* committed agency_document_counts rows
    thr,        \* per thread: the locals of the handler or task it runs
    sess,       \* per thread: its SQLAlchemy session
    bootDay,    \* the day the server process was started
    donePages,  \* history: pages whose page transaction committed since the last reset
    hm,         \* committed agency_regulation_document_historical_metrics rows, by key
    calls,      \* history: the direct calls of compute_and_store_metrics and their outcomes
    mconts,     \* the document_contents rows a metrics run reads
    mrun,       \* the locals of compute_metrics_for_all_documents
    mwk,        \* per pool thread: the locals of process_document_batch
    cl,         \* the locals of the ECFRApiClient call in progress
    documents,  \* committed agency_documents rows
    fn          \* a call of a function of the analyzers: its argument and its result

vars == <<corpus, today, bootDay, descs, contents, recs, thr, sess, donePages,
          hm, calls, mconts, mrun, mwk, cl, documents, fn>>
metr == <<hm, calls, mconts, mrun, mwk, cl, documents, fn>>

Min(a, b) == IF a < b THEN a ELSE b
MinOf(S) == CHOOSE r \in S : \A q \in S : r <= q

\* ------------------------------------------------------------ the corpus
\* What a search result carries, by its structure_index: results 1 and 2
\* have a hierarchy with title and chapter, result 1 also has ends_on.
HasHierarchy(x) == x # 3
HasDate(x) == x = 1

Corpora == {c \in [1..MaxItems -> SIdx] : \A i \in 1..(MaxItems - 1) : c[i] <= c[i + 1]}

\* GET /search/v1/results, page p (1-based) of n results per page
SearchPage(p, n) ==
    LET lo == (p - 1) * n + 1
        hi == Min(p * n, Len(corpus))
    IN  IF lo > hi THEN <<>> ELSE SubSeq(corpus, lo, hi)

\* GET /search/v1/count
TotalCount == Len(corpus)

\* The pages rounded down
TotalPagesFloor(total_count, per_page) == total_count \div per_page

\* total_pages = (total_count + per_page - 1) // per_page
TotalPages(total_count, per_page) == (total_count + per_page - 1) \div per_page

\* ------------------------------------------------------------- the store
NoDesc == [sidx |-> 0, st |-> NOT_PROCESSED]
\* ty: target_year, 0 for NULL
NoRec == [tc |-> 0, pp |-> 0, cp |-> 0, ic |-> -1, qd |-> 0, ty |-> 0]

HasRec(r) == recs[r].ic >= 0

\* .order_by(query_date.desc()).first(): a latest record; ties in any order
LatestRecs(S) == {r \in S : \A q \in S : recs[q].qd <= recs[r].qd}
AllRecs == {r \in RecIds : HasRec(r)}
ActiveRecs == {r \in RecIds : HasRec(r) /\ recs[r].ic < COMPLETE}
FreeRecs == {r \in RecIds : ~HasRec(r)}

\* ----------------------------------------------------------- the session
\* sd: the descriptors of the identity map. how: "none" not loaded, "ld"
\* loaded, "upd" an UPDATE was flushed (the row is locked until the
\* transaction ends), "ins" an INSERT was flushed. dirty: changed in memory
\* since the last flush. pend: contents added and not flushed; flc: contents
\* flushed and not committed. rw: the progress records written or added in
\* this transaction (cp, ic: the value written, -1 when the column is not).
NoWrite == [how |-> "none", tc |-> 0, pp |-> 0, cp |-> -1, ic |-> -1, qd |-> 0, ty |-> 0]
NoEntry == [sidx |-> 0, st |-> NOT_PROCESSED, how |-> "none", dirty |-> FALSE]
EmptySess == [sd |-> [d \in DescIds |-> NoEntry],
              pend |-> [k \in Keys |-> 0],
              flc |-> [k \in Keys |-> 0],
              rw |-> [r \in RecIds |-> NoWrite]]

Idle == [kind |-> "idle", pc |-> "idle", cur |-> 0, tp |-> 0, pp |-> 0,
         rec |-> 0, res |-> <<>>, d |-> NoId, reset |-> FALSE, soft |-> FALSE,
         all |-> FALSE, maxp |-> -1, np |-> 0, lost |-> {}, first |-> 0,
         next |-> 0, mw |-> 0, todo |-> <<>>, sel |-> {}, handled |-> {}, year |-> 0]

\* The rows a query of session t for structure_index x matches: committed
\* rows and rows this transaction inserted.
VisibleDescs(t, x) ==
    {d \in DescIds : \/ descs[d].sidx = x
                     \/ (sess[t].sd[d].how = "ins" /\ sess[t].sd[d].sidx = x)}

\* The object the identity map yields for row d: its in-memory state if it
\* is loaded, else the row as committed.
Loaded(se, d) ==
    IF se.sd[d].how # "none" THEN se.sd[d]
    ELSE [sidx |-> descs[d].sidx, st |-> descs[d].st, how |-> "ld", dirty |-> FALSE]

UsedDescs == {d \in DescIds : descs[d].sidx # 0 \/ \E t \in Threads : sess[t].sd[d].how # "none"}
FreeDescs(x) == {d \in DescIds \ UsedDescs : d[1] = x}
\* uuid.uuid4: an id no row has
NewId(x) == CHOOSE d \in FreeDescs(x) : \A e \in FreeDescs(x) : d[2] <= e[2]

\* descriptor.processing_status = v
SetStatus(se, d, v) ==
    LET e == Loaded(se, d)
    IN  [se EXCEPT !.sd[d] = [e EXCEPT !.st = v, !.dirty = e.dirty \/ (v # e.st)]]

\* A flush must lock every row it updates: it waits while another
\* transaction holds the row.
CanFlush(t, se) ==
    \A d \in DescIds :
        (se.sd[d].dirty /\ se.sd[d].how = "ld")
            => \A u \in Threads \ {t} : sess[u].sd[d].how # "upd"

\* db.flush()
Flush(se) ==
    [se EXCEPT
        !.sd = [d \in DescIds |->
                  IF se.sd[d].dirty
                  THEN [se.sd[d] EXCEPT !.dirty = FALSE,
                                        !.how = IF @ = "ld" THEN "upd" ELSE @]
                  ELSE se.sd[d]],
        !.flc = [k \in Keys |-> se.flc[k] + se.pend[k]],
        !.pend = [k \in Keys |-> 0]]

\* The committed descriptors after session se commits
CommitDescs(se) ==
    LET f == Flush(se)
    IN  [d \in DescIds |->
            IF f.sd[d].how \in {"ins", "upd"}
            THEN [sidx |-> f.sd[d].sidx, st |-> f.sd[d].st]
            ELSE descs[d]]

CommitContents(se) ==
    [k \in Keys |-> contents[k] + se.flc[k] + se.pend[k]]

\* The committed progress records after session se commits
CommitRecs(se) ==
    [r \in RecIds |->
        LET w == se.rw[r]
        IN  IF w.how = "ins"
            THEN [tc |-> w.tc, pp |-> w.pp, cp |-> w.cp, ic |-> w.ic, qd |-> w.qd,
                  ty |-> w.ty]
            ELSE IF w.how = "upd"
            THEN [recs[r] EXCEPT !.cp = IF w.cp >= 0 THEN w.cp ELSE @,
                                 !.ic = IF w.ic >= 0 THEN w.ic ELSE @]
            ELSE recs[r]]

\* count_record.current_page = v (r = 0: the object is no longer in the session)
WriteCp(se, r, v) ==
    IF r = 0 THEN se
    ELSE [se EXCEPT !.rw[r] = [@ EXCEPT !.cp = v, !.how = IF @ = "none" THEN "upd" ELSE @]]

\* count_record.is_complete = v
WriteIc(se, r, v) ==
    IF r = 0 THEN se
    ELSE [se EXCEPT !.rw[r] = [@ EXCEPT !.ic = v, !.how = IF @ = "none" THEN "upd" ELSE @]]

store == <<descs, contents, recs>>
clock == <<corpus, today, bootDay>>

\* ------------------------------------------------------ the metrics store
Docs == 1..MaxDocs
MKeys == Docs \X Days
Pool == 1..MaxWorkers
\* A text is a sequence of characters: "w" a word character, " " a blank.
\* Null is None.
Chars == {"w", " "}
Null == <<"null">>
Texts == UNION {[1..n -> Chars] : n \in 0..MaxText}
\* A metrics_date as the caller passes it: a day, and tm = 1 when the
\* datetime has a time of day, tm = 0 when it is a date or a midnight.
MDates == [day : Days, tm : {0, 1}]

NoRun == [pc |-> "idle", n |-> 0, out |-> <<>>, runs |-> 0,
          last |-> [total_processed |-> -1, success_count |-> 0, error_count |-> 0,
                    entries |-> <<>>]]
NoBatch == [pc |-> "idle", batch |-> <<>>, out |-> <<>>, text |-> Null]

\* No call of the client: op is the method, retry_count its local, log the
\* requests sent and the answer to each, ret what the call returned.
\* date: the date_str of a content call; fix: the most recent issue date of
\* the 400 answer; got: the date in the URL whose answer was returned;
\* stored: what the caller did with the text returned
NoCall == [op |-> "none", pc |-> "idle", retry_count |-> 0, log |-> <<>>, ret |-> "none",
           date |-> 0, fix |-> -1, got |-> -1, stored |-> "no"]

\* No function of the analyzers is being evaluated.
NoEval == [op |-> "none", arg |-> <<>>, done |-> FALSE, out |-> <<>>]

MetricsIdle ==
    /\ cl = NoCall
    /\ fn = NoEval
    /\ hm = [k \in MKeys |-> <<>>]
    /\ calls = <<>>
    /\ mconts = <<>>
    /\ mrun = NoRun
    /\ mwk = [w \in Pool |-> NoBatch]

Init ==
    /\ MetricsIdle
    /\ corpus \in Corpora
    /\ today = 1
    /\ bootDay = 1
    /\ descs = [d \in DescIds |-> NoDesc]
    /\ contents = [k \in Keys |-> 0]
    /\ recs = [r \in RecIds |-> NoRec]
    /\ thr = [t \in Threads |-> Idle]
    /\ sess = [t \in Threads |-> EmptySess]
    /\ donePages = {}
    /\ documents = {}

\* AgencyDocumentCount(...): query_date defaults to datetime.now().date, a
\* method bound when the module was imported: the day the process started.
NewRec(total_count, per_page, current_page) ==
    [tc |-> total_count, pp |-> per_page, cp |-> current_page,
     ic |-> IN_PROGRESS, qd |-> bootDay, ty |-> 0]

\* ---------------------------------------------- POST .../documents/fetch-all
\* The handler: count, optional reset of the latest record, creation of a
\* record when the agency has none, then the background task is queued.
\* yr: a target_year in the query string of the request (0: none); the
\* handler declares no such parameter, so the value is not read.
FetchAll(t, n, rst, conc, workers, yr) ==
    /\ thr[t].kind = "idle"
    /\ \E r0 \in (IF rst /\ AllRecs # {} THEN LatestRecs(AllRecs) ELSE {0}) :
         LET recs1 == IF r0 # 0
                      THEN [recs EXCEPT ![r0].cp = 0, ![r0].ic = NOT_STARTED]
                      ELSE recs
         IN  /\ recs' = IF AllRecs = {}
                        THEN [recs1 EXCEPT ![MinOf(FreeRecs)] =
                                              NewRec(TotalCount, n, 0)]
                        ELSE recs1
             /\ donePages' = IF r0 # 0 THEN {} ELSE donePages
    /\ thr' = [thr EXCEPT ![t] = [Idle EXCEPT !.kind = IF conc THEN "conc" ELSE "seq",
                                              !.pc = "start",
                                              !.tp = TotalPages(TotalCount, n),
                                              !.pp = n,
                                              !.mw = IF conc THEN workers ELSE 0,
                                              !.reset = rst,
                                              !.year = yr]]
    /\ UNCHANGED <<metr, clock, descs, contents, sess>>

\* ------------------------------------- process_agency_documents_sequential
\* A resume that starts over at page 0
ResumePageFromStart(r) == 0

\* current_page = count_record.current_page
ResumePage(r) == recs[r].cp

\* Lines 476-493: the latest record is marked in progress and committed.
SeqStart(t) ==
    /\ thr[t].kind = "seq" /\ thr[t].pc = "start"
    /\ IF AllRecs = {}
       THEN /\ thr' = [thr EXCEPT ![t] = Idle]
            /\ UNCHANGED recs
       ELSE \E r \in LatestRecs(AllRecs) :
            /\ recs' = [recs EXCEPT ![r].ic = IN_PROGRESS]
            /\ thr' = [thr EXCEPT ![t].rec = r, ![t].cur = ResumePage(r), ![t].pc = "search",
                                   ![t].first = ResumePage(r), ![t].reset = FALSE]
    /\ UNCHANGED <<metr, clock, descs, contents, sess, donePages>>

\* search_agency_documents: the page, or {"results": []} once the retries
\* are exhausted.
SearchOutcomes(p, n) == {[ok |-> TRUE, res |-> SearchPage(p, n)], [ok |-> FALSE, res |-> <<>>]}

\* Lines 496-504: the loop test and the search of page current_page + 1.
SeqSearch(t) ==
    /\ thr[t].kind = "seq" /\ thr[t].pc = "search"
    /\ IF thr[t].cur < thr[t].tp
       THEN \E o \in SearchOutcomes(thr[t].cur + 1, thr[t].pp) :
              thr' = [thr EXCEPT ![t].res = o.res, ![t].soft = ~o.ok,
                                 ![t].pc = IF o.res = <<>> THEN "commit" ELSE "result"]
       ELSE thr' = [thr EXCEPT ![t].pc = "finish"]
    /\ UNCHANGED <<metr, clock, store, sess, donePages>>

NextResult(th) ==
    [th EXCEPT !.res = Tail(th.res), !.d = NoId,
               !.pc = IF Tail(th.res) = <<>> THEN "commit" ELSE "result"]

InPage(t) == thr[t].kind \in {"seq", "page"}

\* process_search_result, the descriptor exists and is completed: returned
\* as is, nothing is flushed.
ResultCompleted(t) ==
    /\ InPage(t) /\ thr[t].pc = "result"
    /\ \E d \in VisibleDescs(t, Head(thr[t].res)) :
         /\ Loaded(sess[t], d).st = COMPLETED
         /\ sess' = [sess EXCEPT ![t].sd[d] = Loaded(sess[t], d)]
         /\ thr' = [thr EXCEPT ![t].d = d, ![t].pc = "content"]
    /\ UNCHANGED <<metr, clock, store, donePages>>

\* process_search_result, the descriptor exists: its fields are set from
\* the result (changed: some field differs from the loaded row), its status
\* becomes 1, the session is flushed.
ResultUpdate(t) ==
    /\ InPage(t) /\ thr[t].pc = "result"
    /\ \E d \in VisibleDescs(t, Head(thr[t].res)), changed \in BOOLEAN :
         LET e == Loaded(sess[t], d)
             s1 == [sess[t] EXCEPT !.sd[d] = [e EXCEPT !.dirty = e.dirty \/ changed]]
             s2 == SetStatus(s1, d, PROCESSING)
         IN  /\ e.st # COMPLETED
             /\ CanFlush(t, s2)
             /\ sess' = [sess EXCEPT ![t] = Flush(s2)]
             /\ thr' = [thr EXCEPT ![t].d = d, ![t].pc = "content"]
    /\ UNCHANGED <<metr, clock, store, donePages>>

\* process_search_result, no descriptor has the structure_index: one is
\* created with status 1 and flushed.
ResultCreate(t) ==
    /\ InPage(t) /\ thr[t].pc = "result"
    /\ VisibleDescs(t, Head(thr[t].res)) = {}
    /\ FreeDescs(Head(thr[t].res)) # {}
    /\ LET d == NewId(Head(thr[t].res))
           s1 == [sess[t] EXCEPT !.sd[d] = [sidx |-> Head(thr[t].res), st |-> PROCESSING,
                                            how |-> "ins", dirty |-> FALSE]]
       IN  /\ CanFlush(t, s1)
           /\ sess' = [sess EXCEPT ![t] = Flush(s1)]
           /\ thr' = [thr EXCEPT ![t].d = d, ![t].pc = "content"]
    /\ UNCHANGED <<metr, clock, store, donePages>>

\* process_search_result, an exception (the flush fails): the session is
\* rolled back and None is returned, the caller goes on to the next result.
ResultError(t) ==
    /\ InPage(t) /\ thr[t].pc = "result"
    /\ sess' = [sess EXCEPT ![t] = EmptySess]
    /\ thr' = [thr EXCEPT ![t] = NextResult(thr[t])]
    /\ UNCHANGED <<metr, clock, store, donePages>>

\* content_date: ends_on, else starts_on, else today
ContentDate(x) == IF HasDate(x) THEN 0 ELSE today

\* The rows the query for (descriptor_id, version_date) sees: autoflush is
\* off, so the contents this session added and has not flushed are not.
ExistingContent(se, k) == contents[k] + se.flc[k]

\* get_and_store_document_content after the content was fetched (got is the
\* client's answer: TRUE the markup, FALSE None)
StoreContent(se, d, got) ==
    LET x == Loaded(se, d).sidx
        k == <<d, ContentDate(x)>>
    IN  IF ~HasHierarchy(x) THEN SetStatus(se, d, COMPLETED)
        ELSE IF ~got THEN SetStatus(se, d, ERROR)
        ELSE IF ExistingContent(se, k) > 0 THEN SetStatus(se, d, COMPLETED)
        ELSE SetStatus([se EXCEPT !.pend[k] = @ + 1], d, COMPLETED)

GetAndStoreDocumentContent(t) ==
    /\ InPage(t) /\ thr[t].pc = "content"
    /\ \E got \in BOOLEAN :
         sess' = [sess EXCEPT ![t] = StoreContent(sess[t], thr[t].d, got)]
    /\ thr' = [thr EXCEPT ![t] = NextResult(thr[t])]
    /\ UNCHANGED <<metr, clock, store, donePages>>

\* Lines 522-525: current_page += 1; count_record.current_page = current_page;
\* db.commit()
SeqCommit(t) ==
    /\ thr[t].kind = "seq" /\ thr[t].pc = "commit"
    /\ CanFlush(t, sess[t])
    /\ descs' = CommitDescs(sess[t])
    /\ contents' = CommitContents(sess[t])
    /\ recs' = [recs EXCEPT ![thr[t].rec].cp = thr[t].cur + 1]
    /\ sess' = [sess EXCEPT ![t] = EmptySess]
    /\ thr' = [thr EXCEPT ![t].cur = @ + 1, ![t].pc = "search", ![t].soft = FALSE]
    /\ donePages' = donePages \cup {thr[t].cur}
    /\ UNCHANGED <<metr, clock>>

\* The commit raises: the exception ends the task (lines 534-540).
SeqCommitFails(t) ==
    /\ thr[t].kind = "seq" /\ thr[t].pc = "commit"
    /\ sess' = [sess EXCEPT ![t] = EmptySess]
    /\ thr' = [thr EXCEPT ![t] = Idle]
    /\ UNCHANGED <<metr, clock, store, donePages>>

\* Lines 529-531: count_record.is_complete = 2; db.commit()
SeqFinish(t) ==
    /\ thr[t].kind = "seq" /\ thr[t].pc = "finish"
    /\ recs' = [recs EXCEPT ![thr[t].rec].ic = COMPLETE]
    /\ sess' = [sess EXCEPT ![t] = EmptySess]
    /\ thr' = [thr EXCEPT ![t] = Idle]
    /\ UNCHANGED <<metr, clock, descs, contents, donePages>>

\* ------------------------------------- process_agency_documents_concurrent
Workers == Threads \ {1}
Busy == {w \in Workers : thr[w].kind = "page"}

\* Lines 551-570: the latest record is marked in progress and committed;
\* the pages from its current_page on are submitted to the pool.
ConcStart(t) ==
    /\ thr[t].kind = "conc" /\ thr[t].pc = "start"
    /\ IF AllRecs = {}
       THEN /\ thr' = [thr EXCEPT ![t] = Idle]
            /\ UNCHANGED recs
       ELSE \E r \in LatestRecs(AllRecs) :
            /\ recs' = [recs EXCEPT ![r].ic = IN_PROGRESS]
            /\ thr' = [thr EXCEPT ![t].rec = r, ![t].cur = recs[r].cp, ![t].next = recs[r].cp,
                                   ![t].pc = "pool", ![t].reset = FALSE]
    /\ UNCHANGED <<metr, clock, descs, contents, sess, donePages>>

\* A pool thread takes the next submitted page (lines 577-587, 630-631):
\* at most max_workers pages run at once, each with a session of its own.
PageStart(t, w) ==
    /\ thr[t].kind = "conc" /\ thr[t].pc = "pool"
    /\ thr[t].next < thr[t].tp
    /\ Cardinality(Busy) < thr[t].mw
    /\ w \in Workers \ Busy
    /\ w = MinOf(Workers \ Busy)
    /\ thr' = [thr EXCEPT ![t].next = @ + 1,
                          ![w] = [Idle EXCEPT !.kind = "page", !.pc = "search",
                                              !.cur = thr[t].next, !.pp = thr[t].pp]]
    /\ UNCHANGED <<metr, clock, store, sess, donePages>>

\* Lines 589-594: the search of page page_num + 1
PageSearch(w) ==
    /\ thr[w].kind = "page" /\ thr[w].pc = "search"
    /\ \E o \in SearchOutcomes(thr[w].cur + 1, thr[w].pp) :
         thr' = [thr EXCEPT ![w].res = o.res, ![w].soft = ~o.ok,
                            ![w].pc = IF o.res = <<>> THEN "commit" ELSE "result"]
    /\ UNCHANGED <<metr, clock, store, sess, donePages>>

\* A page commit that also advances the record by one page
PageCommitAdvances(w) ==
    /\ thr[w].kind = "page" /\ thr[w].pc = "commit"
    /\ CanFlush(w, sess[w])
    /\ descs' = CommitDescs(sess[w])
    /\ contents' = CommitContents(sess[w])
    /\ recs' = [recs EXCEPT ![thr[1].rec].cp = @ + 1]
    /\ sess' = [sess EXCEPT ![w] = EmptySess]
    /\ thr' = [thr EXCEPT ![w] = Idle]
    /\ UNCHANGED <<metr, clock, donePages>>

\* Lines 612-627: thread_db.commit()
PageCommit(w) ==
    /\ thr[w].kind = "page" /\ thr[w].pc = "commit"
    /\ CanFlush(w, sess[w])
    /\ descs' = CommitDescs(sess[w])
    /\ contents' = CommitContents(sess[w])
    /\ sess' = [sess EXCEPT ![w] = EmptySess]
    /\ thr' = [thr EXCEPT ![w] = Idle]
    /\ UNCHANGED <<metr, clock, recs, donePages>>

\* Lines 620-627: the commit raises, the page is rolled back. lost (of the
\* run, history): the pages of the run that were rolled back.
PageCommitFails(w) ==
    /\ thr[w].kind = "page" /\ thr[w].pc = "commit"
    /\ sess' = [sess EXCEPT ![w] = EmptySess]
    /\ thr' = [thr EXCEPT ![w] = Idle, ![1].lost = @ \cup {thr[w].cur}]
    /\ UNCHANGED <<metr, clock, store, donePages>>

\* Lines 633-640: every future has finished; the record is set to
\* total_pages and complete.
ConcFinish(t) ==
    /\ thr[t].kind = "conc" /\ thr[t].pc = "pool"
    /\ thr[t].next >= thr[t].tp
    /\ Busy = {}
    /\ recs' = [recs EXCEPT ![thr[t].rec].cp = thr[t].tp, ![thr[t].rec].ic = COMPLETE]
    /\ thr' = [thr EXCEPT ![t] = Idle]
    /\ UNCHANGED <<metr, clock, descs, contents, sess, donePages>>

\* ------------------------------------- GET .../documents (get_agency_documents)
\* db.add(count_record)
Added(rec) ==
    [how |-> "ins", tc |-> rec.tc, pp |-> rec.pp, cp |-> rec.cp, ic |-> rec.ic, qd |-> rec.qd,
     ty |-> rec.ty]

\* Lines 86-124: the active record, the starting page, the new record.
\* sp = -1: no start_page. The session after them, the count_record object
\* and the local current_page.
GadOpen(r0, n, rst, sp) ==
    LET cur == IF rst THEN 0
               ELSE IF sp >= 0 THEN sp
               ELSE IF r0 # 0 THEN recs[r0].cp ELSE 0
        s1 == IF r0 = 0 THEN EmptySess
              ELSE IF rst THEN WriteIc(WriteCp(EmptySess, r0, 0), r0, NOT_STARTED)
              ELSE IF sp >= 0 THEN WriteCp(EmptySess, r0, sp)
              ELSE EmptySess
        fresh == r0 = 0 \/ rst
        r1 == IF fresh THEN MinOf(FreeRecs) ELSE r0
        s2 == IF fresh
              THEN [s1 EXCEPT !.rw[r1] = Added(NewRec(TotalCount, n, cur))]
              ELSE s1
    IN  [se |-> s2, rec |-> r1, cur |-> cur]

\* Lines 67-142: up to the test "are we done"; when done the record is
\* marked complete and committed.
GadStart(t, n, rst, sp, all, maxp) ==
    /\ thr[t].kind = "idle"
    /\ \E r0 \in (IF ActiveRecs # {} THEN LatestRecs(ActiveRecs) ELSE {0}) :
         /\ (r0 = 0 \/ rst) => FreeRecs # {}
         /\ LET o == GadOpen(r0, n, rst, sp)
                tp == TotalPages(TotalCount, n)
            IN  IF o.cur >= tp
                THEN /\ recs' = CommitRecs(WriteIc(o.se, o.rec, COMPLETE))
                     /\ UNCHANGED <<thr, sess>>
                ELSE /\ thr' = [thr EXCEPT ![t] =
                                  [Idle EXCEPT !.kind = "gad", !.pc = "search", !.cur = o.cur,
                                               !.tp = tp, !.pp = n, !.rec = o.rec,
                                               !.all = all, !.maxp = maxp]]
                     /\ sess' = [sess EXCEPT ![t] = o.se]
                     /\ UNCHANGED recs
    /\ UNCHANGED <<metr, clock, descs, contents, donePages>>

\* Lines 150-157: the loop test, the max_pages test, the search.
GadSearch(t) ==
    /\ thr[t].kind = "gad" /\ thr[t].pc = "search"
    /\ IF thr[t].cur >= thr[t].tp \/ (thr[t].maxp >= 0 /\ thr[t].np >= thr[t].maxp)
       THEN thr' = [thr EXCEPT ![t].pc = "finish"]
       ELSE \E o \in SearchOutcomes(thr[t].cur + 1, thr[t].pp) :
              thr' = [thr EXCEPT ![t].res = o.res, ![t].soft = ~o.ok,
                                 ![t].pc = IF o.res = <<>> THEN "commit" ELSE "result"]
    /\ UNCHANGED <<metr, clock, store, sess, donePages>>

\* Lines 169-195, the descriptor exists: every field of the result is set
\* on it, the session is flushed.
GadUpdate(t) ==
    /\ thr[t].kind = "gad" /\ thr[t].pc = "result"
    /\ \E d \in VisibleDescs(t, Head(thr[t].res)), changed \in BOOLEAN :
         LET e == Loaded(sess[t], d)
             s1 == [sess[t] EXCEPT !.sd[d] = [e EXCEPT !.dirty = e.dirty \/ changed]]
         IN  /\ CanFlush(t, s1)
             /\ sess' = [sess EXCEPT ![t] = Flush(s1)]
             /\ thr' = [thr EXCEPT ![t].d = d, ![t].pc = "content"]
    /\ UNCHANGED <<metr, clock, store, donePages>>

\* Lines 185-195, no descriptor has the structure_index: one is added (its
\* processing_status takes the column default) and flushed.
GadCreate(t) ==
    /\ thr[t].kind = "gad" /\ thr[t].pc = "result"
    /\ VisibleDescs(t, Head(thr[t].res)) = {}
    /\ FreeDescs(Head(thr[t].res)) # {}
    /\ LET d == NewId(Head(thr[t].res))
           s1 == [sess[t] EXCEPT !.sd[d] = [sidx |-> Head(thr[t].res), st |-> NOT_PROCESSED,
                                            how |-> "ins", dirty |-> FALSE]]
       IN  /\ CanFlush(t, s1)
           /\ sess' = [sess EXCEPT ![t] = Flush(s1)]
           /\ thr' = [thr EXCEPT ![t].d = d, ![t].pc = "content"]
    /\ UNCHANGED <<metr, clock, store, donePages>>

\* The flush raises: nothing catches it, the request ends and its session
\* is closed.
GadFlushFails(t) ==
    /\ thr[t].kind = "gad" /\ thr[t].pc = "result"
    /\ sess' = [sess EXCEPT ![t] = EmptySess]
    /\ thr' = [thr EXCEPT ![t] = Idle]
    /\ UNCHANGED <<metr, clock, store, donePages>>

\* Lines 197-276 after the content was fetched
GadStoreContent(se, d, got) ==
    LET x == Loaded(se, d).sidx
        k == <<d, ContentDate(x)>>
    IN  IF HasHierarchy(x) /\ got /\ ExistingContent(se, k) = 0
        THEN [se EXCEPT !.pend[k] = @ + 1]
        ELSE se

GadContent(t) ==
    /\ thr[t].kind = "gad" /\ thr[t].pc = "content"
    /\ \E got \in BOOLEAN :
         sess' = [sess EXCEPT ![t] = GadStoreContent(sess[t], thr[t].d, got)]
    /\ thr' = [thr EXCEPT ![t] = NextResult(thr[t])]
    /\ UNCHANGED <<metr, clock, store, donePages>>

\* Lines 301-304: break after the page unless process_all
GadAfterPage(th) ==
    [th EXCEPT !.cur = @ + 1, !.np = @ + 1, !.soft = FALSE, !.res = <<>>,
               !.pc = IF th.all THEN "search" ELSE "finish"]

\* Lines 282-295: the counters, count_record.current_page, db.commit()
GadCommit(t) ==
    /\ thr[t].kind = "gad" /\ thr[t].pc = "commit"
    /\ LET s1 == WriteCp(sess[t], thr[t].rec, thr[t].cur + 1)
       IN  /\ CanFlush(t, s1)
           /\ descs' = CommitDescs(s1)
           /\ contents' = CommitContents(s1)
           /\ recs' = CommitRecs(s1)
    /\ sess' = [sess EXCEPT ![t] = EmptySess]
    /\ thr' = [thr EXCEPT ![t] = GadAfterPage(thr[t])]
    /\ UNCHANGED <<metr, clock, donePages>>

\* Lines 296-299: the commit raises and the session is rolled back; a
\* count_record added in this transaction leaves the session. The local
\* current_page keeps its new value.
GadCommitFails(t) ==
    /\ thr[t].kind = "gad" /\ thr[t].pc = "commit"
    /\ sess' = [sess EXCEPT ![t] = EmptySess]
    /\ thr' = [thr EXCEPT ![t] =
                 [GadAfterPage(thr[t]) EXCEPT
                     !.rec = IF thr[t].rec # 0 /\ sess[t].rw[thr[t].rec].how = "ins" THEN 0 ELSE @,
                     !.lost = @ \cup {thr[t].cur}]]
    /\ UNCHANGED <<metr, clock, store, donePages>>

\* Lines 306-311: if current_page >= total_pages the record is marked
\* complete and committed; the request returns.
GadFinish(t) ==
    /\ thr[t].kind = "gad" /\ thr[t].pc = "finish"
    /\ LET s1 == IF thr[t].cur >= thr[t].tp
                 THEN WriteIc(sess[t], thr[t].rec, COMPLETE)
                 ELSE sess[t]
       IN  /\ recs' = IF thr[t].cur >= thr[t].tp THEN CommitRecs(s1) ELSE recs
           /\ descs' = IF thr[t].cur >= thr[t].tp THEN CommitDescs(s1) ELSE descs
           /\ contents' = IF thr[t].cur >= thr[t].tp THEN CommitContents(s1) ELSE contents
    /\ sess' = [sess EXCEPT ![t] = EmptySess]
    /\ thr' = [thr EXCEPT ![t] = Idle]
    /\ UNCHANGED <<metr, clock, donePages>>

\* ------------------------------------------------------- the environment
\* The process is killed and started again: every task and every open
\* transaction is gone.
Restart ==
    /\ \E t \in Threads : thr[t].kind # "idle"
    /\ thr' = [t \in Threads |-> Idle]
    /\ sess' = [t \in Threads |-> EmptySess]
    /\ bootDay' = today
    /\ UNCHANGED <<metr, corpus, today, store, donePages>>

NextDay ==
    /\ today < MaxDay
    /\ today' = today + 1
    /\ UNCHANGED <<metr, corpus, bootDay, store, thr, sess, donePages>>

\* ----------------------------------------- sequential fetch-all, one run
SeqNext ==
    \/ \E n \in PerPages, rst \in BOOLEAN, yr \in Years :
          /\ \A u \in Threads : thr[u].kind = "idle"
          /\ FetchAll(1, n, rst, FALSE, 0, yr)
    \/ \E t \in Threads :
          \/ SeqStart(t)
          \/ SeqSearch(t)
          \/ ResultCompleted(t)
          \/ ResultUpdate(t)
          \/ ResultCreate(t)
          \/ ResultError(t)
          \/ GetAndStoreDocumentContent(t)
          \/ SeqCommit(t)
          \/ SeqCommitFails(t)
          \/ SeqFinish(t)
    \/ Restart
    \/ NextDay

SpecSeq == Init /\ [][SeqNext]_vars

\* --------------------------------- get_agency_documents, one request at a time
StartPages == -1..MaxStart
MaxPagesArgs == {-1, 0, 1}

Next ==
    \/ \E n \in PerPages, rst \in BOOLEAN, sp \in StartPages, all \in BOOLEAN, maxp \in MaxPagesArgs :
          /\ \A u \in Threads : thr[u].kind = "idle"
          /\ GadStart(1, n, rst, sp, all, maxp)
    \/ \E t \in Threads :
          \/ GadSearch(t)
          \/ GadUpdate(t)
          \/ GadCreate(t)
          \/ GadFlushFails(t)
          \/ GadContent(t)
          \/ GadCommit(t)
          \/ GadCommitFails(t)
          \/ GadFinish(t)
    \/ Restart

Spec == Init /\ [][Next]_vars

\* ----------------------------------- concurrent fetch-all, one run at a time
MaxWorkerArgs == 1..(MaxThreads - 1)

ConcNext ==
    \/ \E n \in PerPages, rst \in BOOLEAN, mw \in MaxWorkerArgs :
          /\ \A u \in Threads : thr[u].kind = "idle"
          /\ FetchAll(1, n, rst, TRUE, mw, 0)
    \/ ConcStart(1)
    \/ ConcFinish(1)
    \/ \E w \in Workers :
          \/ PageStart(1, w)
          \/ PageSearch(w)
          \/ ResultCompleted(w)
          \/ ResultUpdate(w)
          \/ ResultCreate(w)
          \/ ResultError(w)
          \/ GetAndStoreDocumentContent(w)
          \/ PageCommit(w)
          \/ PageCommitFails(w)
    \/ Restart
    \/ NextDay

SpecConc == Init /\ [][ConcNext]_vars

\* =========================================================== the metrics
SMOG_MIN_SENTENCES == 30

\* not x, for a str or None
Falsy(x) == x = Null \/ x = <<>>

\* The characters str.strip() removes and \s matches; the characters of
\* [.!?]; the characters str.isprintable() rejects. Apart from the
\* separators, every other character of a text is a letter or a digit.
Whitespace == {" ", "\n", "\t"}
Terminal == {".", "!", "?"}
NonPrintable == {"\n", "\t"}
\* Punctuation that \w does not match and [.!?] does not either
Separators == {","}
IsWordChar(c) == c \notin Whitespace \cup Terminal \cup Separators

RECURSIVE LStrip(_)
LStrip(s) == IF s # <<>> /\ Head(s) \in Whitespace THEN LStrip(Tail(s)) ELSE s
RECURSIVE RStrip(_)
RStrip(s) == IF s # <<>> /\ s[Len(s)] \in Whitespace THEN RStrip(SubSeq(s, 1, Len(s) - 1)) ELSE s
\* str.strip()
Strip(s) == RStrip(LStrip(s))

\* str.lower(), on the capitals the texts use
Lower(c) == IF c = "T" THEN "t" ELSE IF c = "E" THEN "e" ELSE IF c = "A" THEN "a" ELSE c
LowerAll(s) == [i \in 1..Len(s) |-> Lower(s[i])]

\* ''.join(char for char in text if char.isprintable())
IsPrintable(c) == c \notin NonPrintable
Printable(s) == SelectSeq(s, IsPrintable)

\* The maximal runs of the characters of a class: where they start, and
\* the end of the run that starts at i
RunStarts(s, In(_)) == {i \in 1..Len(s) : In(s[i]) /\ (i = 1 \/ ~In(s[i - 1]))}
RunEnd(s, i, In(_)) == CHOOSE j \in i..Len(s) :
                          /\ \A k \in i..j : In(s[k])
                          /\ j = Len(s) \/ ~In(s[j + 1])

\* len(re.findall(r'\b\w+\b', text)): the maximal runs of word characters
count_words(s) ==
    IF s = <<>> THEN 0 ELSE Cardinality(RunStarts(s, IsWordChar))

IsTerminal(c) == c \in Terminal
IsSpace(c) == c \in Whitespace
NotTerminal(c) == c \notin Terminal

\* len(re.findall(r'[.!?]+', text)): the runs of terminal punctuation
count_sentences(s) ==
    IF s = <<>> THEN 0 ELSE Cardinality(RunStarts(s, IsTerminal))

\* len(re.split(r'\n\s*\n', text)): one more than the matches, and a run
\* of whitespace holds one match when it has two line breaks, else none
count_paragraphs(s) ==
    IF s = <<>> THEN 0
    ELSE 1 + Cardinality({i \in RunStarts(s, IsSpace) :
                 Cardinality({k \in i..RunEnd(s, i, IsSpace) : s[k] = "\n"}) >= 2})

\* ---------------------------------------------------- ReadabilityAnalyzer
Vowels == {"a", "e", "i", "o", "u", "y"}

\* A count of the vowel groups that keeps a final "e"
VowelGroups(word) ==
    LET w == Strip(LowerAll(word))
    IN  IF w = <<>> THEN 1
        ELSE LET n == Cardinality({i \in 1..Len(w) :
                          w[i] \in Vowels /\ (i = 1 \/ w[i - 1] \notin Vowels)})
             IN  IF n > 1 THEN n ELSE 1

\* Lines 13-35: lower-cased and stripped, a final "e" dropped, the vowels
\* that do not follow a vowel counted, at least 1
count_syllables(word) ==
    LET w == Strip(LowerAll(word))
    IN  IF w = <<>> THEN 1
        ELSE LET v == IF w[Len(w)] = "e" THEN SubSeq(w, 1, Len(w) - 1) ELSE w
                 n == Cardinality({i \in 1..Len(v) :
                          v[i] \in Vowels /\ (i = 1 \/ v[i - 1] \notin Vowels)})
             IN  IF n > 1 THEN n ELSE 1

\* get_sentences: the pieces between the runs of terminal punctuation
\* that are not blank, by the index where each starts
get_sentences(s) ==
    {i \in RunStarts(s, NotTerminal) :
        \E k \in i..RunEnd(s, i, NotTerminal) : s[k] \notin Whitespace}

\* get_words: the words of text.lower(), by the index where each starts
get_words(s) == RunStarts(s, IsWordChar)
WordAt(s, i) == LowerAll(SubSeq(s, i, RunEnd(s, i, IsWordChar)))

SyllablesAt(s, i) == count_syllables(WordAt(s, i))

\* sum(cls.count_syllables(word) for word in words)
RECURSIVE total_syllables(_, _)
total_syllables(S, s) ==
    IF S = {} THEN 0
    ELSE LET i == CHOOSE x \in S : TRUE
         IN  SyllablesAt(s, i) + total_syllables(S \ {i}, s)

\* count_complex_words: the words of 3 syllables or more
count_complex_words(s) ==
    Cardinality({i \in get_words(s) : count_syllables(WordAt(s, i)) >= 3})

\* The scores are floats in the code; here they are counted in thousandths,
\* rounded down.
Clamp(x) == IF x < 0 THEN 0 ELSE IF x > 100000 THEN 100000 ELSE x

\* 1000 * a / b, rounded down
MilliDiv(a, b) == (a \div b) * 1000 + ((a % b) * 1000) \div b

\* The largest r with r * r <= x, found by bisection between lo and hi
RECURSIVE IsqrtIn(_, _, _)
IsqrtIn(x, lo, hi) ==
    IF lo = hi THEN lo
    ELSE LET mid == (lo + hi + 1) \div 2
         IN  IF mid * mid <= x THEN IsqrtIn(x, mid, hi) ELSE IsqrtIn(x, lo, mid - 1)
Isqrt(x) == IsqrtIn(x, 0, IF x < 46340 THEN x ELSE 46340)

\* A Flesch score that is not clamped
FleschUnclamped(s) ==
    LET S == Cardinality(get_sentences(s))
        W == Cardinality(get_words(s))
        Y == total_syllables(get_words(s), s)
    IN  IF W = 0 \/ S = 0 THEN 0
        ELSE (206835 * S * W - 1015 * W * W - 84600 * Y * S) \div (S * W)

\* compute_flesch_reading_ease, lines 60-71:
\* 206.835 - 1.015 * (words / sentences) - 84.6 * (syllables / words)
compute_flesch_reading_ease(s) ==
    LET S == Cardinality(get_sentences(s))
        W == Cardinality(get_words(s))
        Y == total_syllables(get_words(s), s)
    IN  IF W = 0 \/ S = 0 THEN 0
        ELSE Clamp((206835 * S * W - 1015 * W * W - 84600 * Y * S) \div (S * W))

\* compute_smog_index, lines 79-90: below SMOG_MIN_SENTENCES sentences 0,
\* else 1.0430 * sqrt(complex * 30 / sentences) + 3.1291 (in
\* ten-thousandths), normalized by 100 - (score - 6) * (100 / 14)
compute_smog_index(s) ==
    LET S == Cardinality(get_sentences(s))
        W == Cardinality(get_words(s))
    IN  IF S < SMOG_MIN_SENTENCES \/ W = 0 THEN 0
        ELSE LET q == Isqrt((count_complex_words(s) * 30 * 1000000) \div S)
                 score == (10430 * q) \div 1000 + 31291
             IN  Clamp(100000 - ((score - 60000) * 5) \div 7)

\* compute_ari, lines 98-109: 4.71 * (characters / words)
\* + 0.5 * (words / sentences) - 21.43, normalized by
\* 100 - (score - 1) * (100 / 13), which is
\* (3543 - 471 * characters / words - 50 * words / sentences) / 13
compute_ari(s) ==
    LET S == Cardinality(get_sentences(s))
        W == Cardinality(get_words(s))
        C == Cardinality({i \in 1..Len(s) : s[i] \notin Whitespace})
    IN  IF W = 0 \/ S = 0 THEN 0
        ELSE Clamp(MilliDiv(3543 * W * S - 471 * C * S - 50 * W * W, 13 * W * S))

NoScores == [readability_score |-> 0, flesch_reading_ease |-> 0, smog_index |-> 0,
             automated_readability_index |-> 0]

\* compute_readability_score, lines 124-149
compute_readability_score(s) ==
    IF Falsy(s) \/ Strip(s) = <<>> THEN NoScores
    ELSE LET f == compute_flesch_reading_ease(s)
             g == compute_smog_index(s)
             a == compute_ari(s)
         IN  [readability_score |-> (2 * f + g + a) \div 4,
              flesch_reading_ease |-> f, smog_index |-> g,
              automated_readability_index |-> a]

\* An analysis of the text as it is given: not stripped, no early return
AnalyzeUnstripped(text) ==
    [word_count |-> count_words(text), sentence_count |-> count_sentences(text),
     paragraph_count |-> count_paragraphs(text),
     scores |-> compute_readability_score(text)]

\* XMLProcessor.analyze_content, lines 45-98
analyze_content(text) ==
    IF Falsy(text) \/ Strip(text) = <<>>
    THEN [word_count |-> 0, sentence_count |-> 0, paragraph_count |-> 0, scores |-> NoScores]
    ELSE LET t == Printable(Strip(text))
         IN  [word_count |-> count_words(t), sentence_count |-> count_sentences(t),
              paragraph_count |-> count_paragraphs(t),
              scores |-> compute_readability_score(t)]

\* compute_and_store_metrics, lines 231-253, called without a
\* document_content_id: the content is rejected.
Invalid(content) == Falsy(content) \/ Strip(content) = <<>>

\* Lines 255-261. metrics_date is a Date column and the parameter the
\* caller's date or datetime: a date, or a midnight, equals the stored date
\* of its day; a datetime with a time of day equals no stored date.
ExistingMetrics(h, doc, md) == IF md.tm = 0 THEN h[<<doc, md.day>>] ELSE <<>>

AllRows(h) == UNION {{<<k, i>> : i \in 1..Len(h[k])} : k \in MKeys}
\* uuid.uuid4
NewRowId(h) == Cardinality(AllRows(h)) + 1

\* Lines 267-295: the row is added and committed; the Date column keeps the
\* day of metrics_date. uix_document_date rejects a second row for the key:
\* the session is rolled back and ValueError("Failed to store metrics") raised.
StoreMetrics(h, doc, md, content) ==
    LET k == <<doc, md.day>>
        row == [id |-> NewRowId(h), wc |-> analyze_content(Strip(content)).word_count]
    IN  IF h[k] # <<>>
        THEN [hm |-> h, ret |-> 0, err |-> "store", wrote |-> FALSE]
        ELSE [hm |-> [h EXCEPT ![k] = <<row>>], ret |-> row.id, err |-> "none", wrote |-> TRUE]

\* A compute_and_store_metrics that stores without validating the content
StoreUnvalidated(h, doc, md, content) ==
    IF ExistingMetrics(h, doc, md) # <<>>
    THEN [hm |-> h, ret |-> Head(ExistingMetrics(h, doc, md)).id, err |-> "none", wrote |-> FALSE]
    ELSE StoreMetrics(h, doc, md, content)

\* compute_and_store_metrics from the validation on (lines 247-295): the
\* store after the call, the id of the row returned (0 when it raises), the
\* error raised, whether a row was written.
compute_and_store_metrics(h, doc, md, content) ==
    IF Invalid(content)
    THEN [hm |-> h, ret |-> 0, err |-> "invalid", wrote |-> FALSE]
    ELSE IF ExistingMetrics(h, doc, md) # <<>>
    THEN [hm |-> h, ret |-> Head(ExistingMetrics(h, doc, md)).id, err |-> "none", wrote |-> FALSE]
    ELSE StoreMetrics(h, doc, md, content)

\* The document_contents rows: version_date, processed_text, raw_xml
PTexts == {Null, <<>>, <<"w">>}
XTexts == {Null, <<" ">>, <<"w", "w">>}
ContentRows == [vd : Days, pt : PTexts, xml : XTexts]

\* A document_content_id: 0 is None, 1..Len(rows) the id of a row, a
\* greater one the id of no row.
ContentIds == 0..MaxConts

\* a or b
Or(a, b) == IF Falsy(a) THEN b ELSE a

\* Lines 231-241: the content the call works on. Without content and
\* without document_content_id it raises; without content the row of the id
\* is read, and it raises when there is none.
ContentOf(rows, content, cid) ==
    IF Falsy(content) /\ cid = 0 THEN [err |-> "invalid", content |-> Null]
    ELSE IF Falsy(content)
    THEN IF cid \notin 1..Len(rows) THEN [err |-> "missing", content |-> Null]
         ELSE [err |-> "none", content |-> Or(rows[cid].pt, rows[cid].xml)]
    ELSE [err |-> "none", content |-> content]

\* compute_and_store_metrics with content and document_content_id
ComputeAndStore(h, rows, doc, md, content, cid) ==
    LET c == ContentOf(rows, content, cid)
    IN  IF c.err # "none"
        THEN [hm |-> h, ret |-> 0, err |-> c.err, wrote |-> FALSE]
        ELSE compute_and_store_metrics(h, doc, md, c.content)

ingest == <<corpus, today, bootDay, descs, contents, recs, thr, sess, donePages, cl, documents, fn>>

IngestIdle ==
    /\ corpus = [i \in 1..MaxItems |-> 1]
    /\ today = 1
    /\ bootDay = 1
    /\ descs = [d \in DescIds |-> NoDesc]
    /\ contents = [k \in Keys |-> 0]
    /\ recs = [r \in RecIds |-> NoRec]
    /\ thr = [t \in Threads |-> Idle]
    /\ sess = [t \in Threads |-> EmptySess]
    /\ donePages = {}
    /\ documents = {[id |-> i, path |-> 0] : i \in Docs}

\* ------------------------------ POST /api/metrics/compute/{document_id}
\* One call after the other, each to its end.
compute_metrics(doc, md, content, cid) ==
    /\ Len(calls) < MaxCalls
    /\ LET o == ComputeAndStore(hm, mconts, doc, md, content, cid)
       IN  /\ hm' = o.hm
           /\ calls' = Append(calls, [doc |-> doc, md |-> md, content |-> content,
                                      cid |-> cid,
                                      ret |-> o.ret, err |-> o.err, wrote |-> o.wrote])
    /\ UNCHANGED <<ingest, mconts, mrun, mwk>>

\* No metrics yet; the document_contents table holds rows an ingestion left.
ComputeInit ==
    /\ IngestIdle
    /\ cl = NoCall
    /\ fn = NoEval
    /\ hm = [k \in MKeys |-> <<>>]
    /\ calls = <<>>
    /\ mconts \in [1..(MaxConts - 1) -> {r \in ContentRows : r.vd = 1}]
    /\ mrun = NoRun
    /\ mwk = [w \in Pool |-> NoBatch]

ComputeNext ==
    \E doc \in Docs, md \in MDates, content \in Texts \cup {Null}, cid \in ContentIds :
        compute_metrics(doc, md, content, cid)

SpecCompute == ComputeInit /\ [][ComputeNext]_vars

\* ------------------------------------ compute_metrics_for_all_documents
WorkerArgs == 0..MaxWorkers
MAX_WORKERS == 10

\* A discovery that does not look at the metrics rows
DiscoveredAgain ==
    {it \in [doc : Docs, c : 1..Len(mconts)] :
        mconts[it.c].pt # Null \/ mconts[it.c].xml # Null}
\* Lines 116-141: every (AgencyDocument, DocumentContent) pair of the
\* agency whose content has a text and for which no metrics row has the
\* document and the content's version_date.
Discovered ==
    {it \in [doc : Docs, c : 1..Len(mconts)] :
        /\ mconts[it.c].pt # Null \/ mconts[it.c].xml # Null
        /\ hm[<<it.doc, mconts[it.c].vd>>] = <<>>}

\* The order of the rows of the query is the database's: by document or by
\* content.
Rank(it, byDoc) ==
    IF byDoc THEN (it.doc - 1) * MaxConts + it.c ELSE (it.c - 1) * MaxDocs + it.doc

RECURSIVE InOrder(_, _)
InOrder(S, byDoc) ==
    IF S = {} THEN <<>>
    ELSE LET it == CHOOSE x \in S : \A y \in S : Rank(x, byDoc) <= Rank(y, byDoc)
         IN  <<it>> \o InOrder(S \ {it}, byDoc)

Max(a, b) == IF a > b THEN a ELSE b

\* Lines 109, 168-179: the clamped worker count, the batch size, batch i
BatchWorkers(workers, n) == Min(Max(1, Min(MAX_WORKERS, workers)), n)
\* A batch size that is rounded down
BatchSizeFloor(workers, n) == n \div BatchWorkers(workers, n)
BatchSize(workers, n) == (n + BatchWorkers(workers, n) - 1) \div BatchWorkers(workers, n)
Batch(items, workers, i) ==
    LET bs == BatchSize(workers, Len(items))
        lo == i * bs
        hi == Min(lo + bs, Len(items))
    IN  IF lo < hi THEN SubSeq(items, lo + 1, hi) ELSE <<>>

\* Lines 173-179: the batches that are not empty, in the order of i
RECURSIVE BatchesFrom(_, _, _)
BatchesFrom(items, workers, i) ==
    IF i >= BatchWorkers(workers, Len(items)) THEN <<>>
    ELSE (IF Batch(items, workers, i) # <<>> THEN <<Batch(items, workers, i)>> ELSE <<>>)
            \o BatchesFrom(items, workers, i + 1)
document_batches(items, workers) == BatchesFrom(items, workers, 0)

\* Lines 207-216: the dictionary returned
Summary(n, out) ==
    [total_processed |-> n,
     success_count |-> Cardinality({i \in 1..Len(out) : out[i].ok}),
     error_count |-> Cardinality({i \in 1..Len(out) : ~out[i].ok}),
     entries |-> out]

\* Lines 109-192: discovery; with no item the call returns, else the
\* batches are submitted to a pool with a thread for each.
StartRun(workers, byDoc) ==
    /\ mrun.pc = "idle"
    /\ mrun.runs < MaxRuns
    /\ LET items == InOrder(Discovered, byDoc)
           n == Len(items)
       IN  IF n = 0
           THEN /\ mrun' = [mrun EXCEPT !.runs = @ + 1, !.n = 0, !.out = <<>>,
                                        !.last = Summary(0, <<>>)]
                /\ UNCHANGED mwk
           ELSE /\ mrun' = [mrun EXCEPT !.pc = "pool", !.runs = @ + 1, !.n = n, !.out = <<>>]
                /\ mwk' = [w \in Pool |->
                             IF Batch(items, workers, w - 1) # <<>>
                             THEN [NoBatch EXCEPT !.pc = "item",
                                                  !.batch = Batch(items, workers, w - 1)]
                             ELSE NoBatch]
    /\ UNCHANGED <<ingest, hm, calls, mconts>>

\* The entry process_document_batch appends for an item
Entry(it, ok, err) ==
    [ok |-> ok, doc |-> it.doc, day |-> mconts[it.c].vd, c |-> it.c, err |-> err]

\* Lines 31-40: processed_text, else raw_xml
ContentToProcess(row) == IF Falsy(row.pt) /\ ~Falsy(row.xml) THEN row.xml ELSE row.pt

\* A loop that an item's exception ends
NextItemAborts(b, e) ==
    [b EXCEPT !.batch = IF e.ok THEN Tail(@) ELSE <<>>, !.out = Append(@, e),
              !.pc = "item", !.text = Null]
\* Lines 28, 50-80: the entry is appended and the loop goes on
NextItem(b, e) == [b EXCEPT !.batch = Tail(@), !.out = Append(@, e), !.pc = "item", !.text = Null]

\* process_document_batch, lines 28-48 and compute_and_store_metrics up to
\* the existence check (lines 231-265): an item without content or with
\* invalid content gets an error entry, an item whose metrics exist a
\* success entry.
WorkerItem(w) ==
    /\ mwk[w].pc = "item" /\ mwk[w].batch # <<>>
    /\ LET it == Head(mwk[w].batch)
           text == ContentToProcess(mconts[it.c])
           md == [day |-> mconts[it.c].vd, tm |-> 0]
       IN  mwk' = [mwk EXCEPT ![w] =
                IF Falsy(text) THEN NextItem(@, Entry(it, FALSE, "no content"))
                ELSE IF Invalid(text) THEN NextItem(@, Entry(it, FALSE, "invalid"))
                ELSE IF ExistingMetrics(hm, it.doc, md) # <<>>
                THEN NextItem(@, Entry(it, TRUE, "none"))
                ELSE [@ EXCEPT !.pc = "insert", !.text = text]]
    /\ UNCHANGED <<ingest, hm, calls, mconts, mrun>>

\* compute_and_store_metrics, lines 267-295, and the entry (lines 50-80):
\* a ValueError gives an error entry.
WorkerInsert(w) ==
    /\ mwk[w].pc = "insert"
    /\ LET it == Head(mwk[w].batch)
           o == StoreMetrics(hm, it.doc, [day |-> mconts[it.c].vd, tm |-> 0], mwk[w].text)
       IN  /\ hm' = o.hm
           /\ mwk' = [mwk EXCEPT ![w] = NextItem(@, Entry(it, o.err = "none", o.err))]
    /\ UNCHANGED <<ingest, calls, mconts, mrun>>

\* Lines 81-83 and 194-202: the batch returns and its entries are appended
\* to the results of the run.
BatchDone(w) ==
    /\ mrun.pc = "pool"
    /\ mwk[w].pc = "item" /\ mwk[w].batch = <<>>
    /\ mrun' = [mrun EXCEPT !.out = @ \o mwk[w].out]
    /\ mwk' = [mwk EXCEPT ![w] = NoBatch]
    /\ UNCHANGED <<ingest, hm, calls, mconts>>

\* Lines 204-216: every future has completed, the summary is returned.
FinishRun ==
    /\ mrun.pc = "pool"
    /\ \A w \in Pool : mwk[w].pc = "idle"
    /\ mrun' = [mrun EXCEPT !.pc = "idle", !.last = Summary(mrun.n, mrun.out)]
    /\ UNCHANGED <<ingest, hm, calls, mconts, mwk>>

MetricsInit ==
    /\ IngestIdle
    /\ cl = NoCall
    /\ fn = NoEval
    /\ hm = [k \in MKeys |-> <<>>]
    /\ calls = <<>>
    /\ mconts \in [1..MaxConts -> ContentRows]
    /\ mrun = NoRun
    /\ mwk = [w \in Pool |-> NoBatch]

MetricsNext ==
    \/ \E workers \in WorkerArgs, byDoc \in BOOLEAN : StartRun(workers, byDoc)
    \/ \E w \in Pool :
          \/ WorkerItem(w)
          \/ WorkerInsert(w)
          \/ BatchDone(w)
    \/ FinishRun

SpecMetrics == MetricsInit /\ [][MetricsNext]_vars

\* ============================================= POST .../documents/retry-failed
\* The descriptors with a processing_status
WithStatus(v) == {d \in DescIds : descs[d].sidx # 0 /\ descs[d].st = v}

\* The rows of a query without ORDER BY, in any order
Orders(S) == {q \in [1..Cardinality(S) -> S] : \A i, j \in 1..Cardinality(S) : i # j => q[i] # q[j]}

\* retry_failed_documents, lines 835-859: the descriptors with status 3 are
\* set to 0 in one UPDATE, committed, and process_failed_documents is
\* queued. sel: history, the descriptors that had status 3.
RetryFailed(t) ==
    /\ thr[t].kind = "idle"
    /\ descs' = [d \in DescIds |-> IF d \in WithStatus(ERROR)
                                  THEN [descs[d] EXCEPT !.st = NOT_PROCESSED]
                                  ELSE descs[d]]
    /\ thr' = [thr EXCEPT ![t] = [Idle EXCEPT !.kind = "failed", !.pc = "start",
                                              !.sel = WithStatus(ERROR)]]
    /\ UNCHANGED <<metr, clock, contents, recs, sess, donePages>>

\* Lines 849-859: the count, the UPDATE or the commit raises; failed_count
\* is 0 and the task is queued all the same.
RetryFailedFails(t) ==
    /\ thr[t].kind = "idle"
    /\ thr' = [thr EXCEPT ![t] = [Idle EXCEPT !.kind = "failed", !.pc = "start",
                                              !.sel = WithStatus(ERROR)]]
    /\ UNCHANGED <<metr, clock, store, sess, donePages>>

\* process_failed_documents, lines 876-879: the descriptors of the agency
\* with processing_status == 0
FailedStart(t) ==
    /\ thr[t].kind = "failed" /\ thr[t].pc = "start"
    /\ \E q \in Orders(WithStatus(NOT_PROCESSED)) :
         thr' = [thr EXCEPT ![t].todo = q,
                            ![t].pc = IF q = <<>> THEN "finish" ELSE "mark"]
    /\ UNCHANGED <<metr, clock, store, sess, donePages>>

\* Lines 891-893: descriptor.processing_status = 1; db.commit()
FailedMark(t) ==
    /\ thr[t].kind = "failed" /\ thr[t].pc = "mark"
    /\ LET s1 == SetStatus(sess[t], Head(thr[t].todo), PROCESSING)
       IN  /\ CanFlush(t, s1)
           /\ descs' = CommitDescs(s1)
    /\ sess' = [sess EXCEPT ![t] = EmptySess]
    /\ thr' = [thr EXCEPT ![t].pc = "content"]
    /\ UNCHANGED <<metr, clock, contents, recs, donePages>>

\* Lines 895-899: get_and_store_document_content, db.commit(). handled:
\* history, the descriptors the step ran for and what the client answered.
FailedContent(t) ==
    /\ thr[t].kind = "failed" /\ thr[t].pc = "content"
    /\ \E got \in BOOLEAN :
         LET d == Head(thr[t].todo)
             s1 == StoreContent(sess[t], d, got)
         IN  /\ CanFlush(t, s1)
             /\ descs' = CommitDescs(s1)
             /\ contents' = CommitContents(s1)
             /\ thr' = [thr EXCEPT ![t].todo = Tail(@),
                                   ![t].handled = @ \cup {<<d, got>>},
                                   ![t].pc = IF Tail(thr[t].todo) = <<>> THEN "finish" ELSE "mark"]
    /\ sess' = [sess EXCEPT ![t] = EmptySess]
    /\ UNCHANGED <<metr, clock, recs, donePages>>

\* Lines 906-912: a commit of the loop raises; the exception is logged and
\* the task ends.
FailedCommitFails(t) ==
    /\ thr[t].kind = "failed" /\ thr[t].pc \in {"mark", "content"}
    /\ sess' = [sess EXCEPT ![t] = EmptySess]
    /\ thr' = [thr EXCEPT ![t] = Idle]
    /\ UNCHANGED <<metr, clock, store, donePages>>

\* Line 904: the loop is over, the pass has finished.
FailedFinish(t) ==
    /\ thr[t].kind = "failed" /\ thr[t].pc = "finish"
    /\ thr' = [thr EXCEPT ![t].pc = "done"]
    /\ UNCHANGED <<metr, clock, store, sess, donePages>>

\* The task returns.
FailedReturn(t) ==
    /\ thr[t].kind = "failed" /\ thr[t].pc = "done"
    /\ thr' = [thr EXCEPT ![t] = Idle]
    /\ UNCHANGED <<metr, clock, store, sess, donePages>>

\* The agency after earlier ingestions of its corpus: one descriptor for
\* each structure_index, left with status 0 by get_agency_documents (with
\* or without its content), or with status 2 or 3 by a fetch-all run.
RetryInit ==
    /\ MetricsIdle
    /\ corpus \in Corpora
    /\ today = 1
    /\ bootDay = 1
    /\ recs = [r \in RecIds |-> NoRec]
    /\ thr = [t \in Threads |-> Idle]
    /\ sess = [t \in Threads |-> EmptySess]
    /\ donePages = {}
    /\ documents = {}
    /\ \E st \in [SIdx -> {NOT_PROCESSED, COMPLETED, ERROR}], has \in [SIdx -> BOOLEAN] :
         /\ \A x \in SIdx : ~HasHierarchy(x) => st[x] # ERROR
         /\ descs = [d \in DescIds |->
                       IF d[2] = 1 /\ \E i \in 1..MaxItems : corpus[i] = d[1]
                       THEN [sidx |-> d[1], st |-> st[d[1]]]
                       ELSE NoDesc]
         /\ contents = [k \in Keys |->
                          IF /\ k[1][2] = 1 /\ \E i \in 1..MaxItems : corpus[i] = k[1][1]
                             /\ HasHierarchy(k[1][1])
                             /\ k[2] = ContentDate(k[1][1])
                             /\ \/ st[k[1][1]] = COMPLETED
                                \/ st[k[1][1]] = NOT_PROCESSED /\ has[k[1][1]]
                          THEN 1 ELSE 0]

RetryNext ==
    \/ RetryFailed(1)
    \/ RetryFailedFails(1)
    \/ FailedStart(1)
    \/ FailedMark(1)
    \/ FailedContent(1)
    \/ FailedCommitFails(1)
    \/ FailedFinish(1)
    \/ FailedReturn(1)
    \/ Restart

SpecRetry == RetryInit /\ [][RetryNext]_vars

\* ========================================================= ECFRApiClient
max_retries == 3

\* What the server answers to a request: 200, 429, a 400 whose text says
\* the date is past the title's most recent issue date and embeds that
\* date ("400date") or does not ("400nodate"), or any other failure (an
\* HTTP error status, an exception of the transport).
Responses == {"200", "429", "400date", "400nodate", "err"}

\* The requests of the call so far of one kind: "req" the request of the
\* call, "fix" the request with the corrected date
Sent(c, kind) == {i \in 1..Len(c.log) : c.log[i][1] = kind}

Logged(c, kind, r) == [c EXCEPT !.log = Append(@, <<kind, r>>)]

\* return data / return response.text
ReturnData(c) == [c EXCEPT !.pc = "done", !.ret = "data"]

\* The exception leaves the method
Raise(c) == [c EXCEPT !.pc = "done", !.ret = "raise"]

\* return {"results": []} / return None
SoftFail(c) == [c EXCEPT !.pc = "done", !.ret = "soft"]

\* The 429 branch: retry_count += 1; sleep; continue. The loop test
\* retry_count <= max_retries then fails or the request is sent again.
After429(c) ==
    LET c1 == [c EXCEPT !.retry_count = @ + 1]
    IN  IF c1.retry_count <= max_retries THEN [c1 EXCEPT !.pc = "request"] ELSE SoftFail(c1)

\* An except branch that goes round the loop without counting
AfterErrorUncounted(c) == [c EXCEPT !.pc = "request"]

\* The except branch: retry_count += 1; within the budget sleep and go
\* round the loop, else return the soft failure.
AfterError(c) ==
    LET c1 == [c EXCEPT !.retry_count = @ + 1]
    IN  IF c1.retry_count <= max_retries THEN [c1 EXCEPT !.pc = "request"] ELSE SoftFail(c1)

\* A method of the client is called.
ClientCall(op, day) ==
    /\ cl.pc \in {"idle", "done"}
    /\ cl' = [NoCall EXCEPT !.op = op, !.pc = "request",
                            !.date = IF op = "content" THEN day ELSE 0]
    /\ UNCHANGED <<corpus, today, bootDay, descs, contents, recs, thr, sess, donePages,
                   hm, calls, mconts, mrun, mwk, documents, fn>>

\* search_agency_documents, one round of the loop (lines 110-138)
SearchAttempt(r) ==
    /\ cl.op = "search" /\ cl.pc = "request"
    /\ LET c == Logged(cl, "req", r)
       IN  cl' = IF r = "429" THEN After429(c)
                 ELSE IF r = "200" THEN ReturnData(c)
                 ELSE AfterError(c)
    /\ UNCHANGED <<corpus, today, bootDay, descs, contents, recs, thr, sess, donePages,
                   hm, calls, mconts, mrun, mwk, documents, fn>>

\* get_document_content, one round of the loop up to the answer to its
\* request (lines 166-186, 206-219)
ContentAttempt(r, mr) ==
    /\ cl.op = "content" /\ cl.pc = "request"
    /\ mr < cl.date
    /\ LET c == Logged(cl, "req", r)
       IN  cl' = IF r = "429" THEN After429(c)
                 ELSE IF r = "400date" THEN [c EXCEPT !.pc = "fix", !.fix = mr]
                 ELSE IF r = "200" THEN [ReturnData(c) EXCEPT !.got = c.date]
                 ELSE AfterError(c)
    /\ UNCHANGED <<corpus, today, bootDay, descs, contents, recs, thr, sess, donePages,
                   hm, calls, mconts, mrun, mwk, documents, fn>>

\* get_document_content, the request with the most recent issue date and
\* its answer (lines 187-204, 211-219)
ContentFix(r) ==
    /\ cl.op = "content" /\ cl.pc = "fix"
    /\ LET c == Logged(cl, "fix", r)
       IN  cl' = IF r = "429" THEN After429(c)
                 ELSE IF r = "200" THEN [ReturnData(c) EXCEPT !.got = c.fix]
                 ELSE AfterError(c)
    /\ UNCHANGED <<corpus, today, bootDay, descs, contents, recs, thr, sess, donePages,
                   hm, calls, mconts, mrun, mwk, documents, fn>>

\* get_agency_document_count (lines 223-237): one request,
\* response.raise_for_status()
CountAttempt(r) ==
    /\ cl.op = "count" /\ cl.pc = "request"
    /\ LET c == Logged(cl, "req", r)
       IN  cl' = IF r = "200" THEN ReturnData(c) ELSE Raise(c)
    /\ UNCHANGED <<corpus, today, bootDay, descs, contents, recs, thr, sess, donePages,
                   hm, calls, mconts, mrun, mwk, documents, fn>>

\* get_and_store_document_content after the client returned the markup
\* (main.py 737-768): version_date is parsed from content_date, the date
\* that was asked for; a row of the descriptor with that version_date is
\* looked for, and when there is none the content is added.
StoreVersion ==
    /\ cl.op = "content" /\ cl.pc = "done" /\ cl.ret = "data" /\ cl.stored = "no"
    /\ IF \E i \in 1..Len(mconts) : mconts[i].vd = cl.date
       THEN /\ cl' = [cl EXCEPT !.stored = "existing"]
            /\ UNCHANGED mconts
       ELSE /\ cl' = [cl EXCEPT !.stored = "added"]
            /\ mconts' = Append(mconts, [vd |-> cl.date, pt |-> <<"w">>, xml |-> <<"w", "w">>])
    /\ UNCHANGED <<corpus, today, bootDay, descs, contents, recs, thr, sess, donePages,
                   hm, calls, mrun, mwk, documents, fn>>

ClientInit == IngestIdle /\ MetricsIdle

\* The call in progress goes on: its request is answered or fails.
ClientStep ==
    \E r \in Responses :
        \/ SearchAttempt(r)
        \/ \E mr \in VDates : ContentAttempt(r, mr)
        \/ ContentFix(r)
        \/ CountAttempt(r)

ClientNext ==
    \/ \E op \in {"search", "content", "count"}, day \in Days : ClientCall(op, day)
    \/ StoreVersion
    \/ \E r \in Responses :
          \/ SearchAttempt(r)
          \/ \E mr \in VDates : ContentAttempt(r, mr)
          \/ ContentFix(r)
          \/ CountAttempt(r)

SpecClient == ClientInit /\ [][ClientNext]_vars /\ WF_vars(ClientStep)

\* ------------------------------------------------------------- the claims
DescRows(x) == {d \in DescIds : descs[d].sidx = x}

\* C1: sequential ingestion leaves at most one DocumentContent row per
\* (descriptor_id, version_date).
C1_OneContentPerKey == \A k \in Keys : contents[k] <= 1

\* C3: in sequential mode the persisted cursor is the first page whose
\* transaction has not committed (the committed pages are exactly the pages
\* below it), a run that resumed works on that page and on no committed page,
\* and no two committed descriptors share a structure_index.
C3_ResumeAtFirstUncommitted ==
    /\ \A r \in AllRecs : donePages = 0..(recs[r].cp - 1)
    /\ \A t \in Threads :
          (thr[t].kind = "seq" /\ thr[t].pc \in {"search", "result", "content", "commit"})
              => /\ thr[t].cur = recs[thr[t].rec].cp
                 /\ thr[t].cur \notin donePages
    /\ \A x \in SIdx : Cardinality(DescRows(x)) <= 1

\* A run that resumed at page 1, page 0 committed by a run that did not
\* finish, is working on the results of page 1.
C3_Resumed ==
    \E t \in Threads :
        /\ thr[t].kind = "seq" /\ thr[t].pc = "result"
        /\ thr[t].first >= 1 /\ thr[t].first < thr[t].tp
        /\ thr[t].cur = thr[t].first
        /\ thr[t].pp = recs[thr[t].rec].pp
        /\ donePages = 0..(thr[t].first - 1)

\* C2: once the commit of page p has failed in a run, no step moves the
\* persisted current_page of that run's record to a value above p.
C2_FailedPageNotPassed ==
    [][\A t \in Threads : \A p \in thr[t].lost :
          (thr[t].rec # 0 /\ recs'[thr[t].rec].cp > p)
              => recs'[thr[t].rec].cp = recs[thr[t].rec].cp]_vars

\* C4: a completed record has current_page >= ceil(total_count / per_page)
\* of its own stored values.
C4_CompleteMeansAllPages ==
    \A r \in AllRecs :
        recs[r].ic = COMPLETE => recs[r].cp >= TotalPages(recs[r].tc, recs[r].pp)

\* C5: a record that is complete stays complete in every step that is not
\* a request with reset.
C5_CompleteIsTerminal ==
    [][\A r \in RecIds :
          recs[r].ic = COMPLETE
              => \/ recs'[r].ic = COMPLETE
                 \/ \E t \in Threads : thr[t].kind = "idle" /\ thr'[t].reset]_vars

\* C6: of two calls for the same (document_id, metrics_date), one after the
\* other, each with a content that has a word, the second returns the row
\* the first returned, writes nothing, and one row is stored for the key.
C6_SecondCallReturnsFirstRow ==
    \A i, j \in 1..Len(calls) :
        (/\ i < j
         /\ calls[i].doc = calls[j].doc /\ calls[i].md = calls[j].md
         /\ ~Invalid(calls[i].content) /\ ~Invalid(calls[j].content))
            => /\ calls[i].ret # 0
               /\ calls[j].ret = calls[i].ret
               /\ ~calls[j].wrote
               /\ Len(hm[<<calls[j].doc, calls[j].md.day>>]) = 1

\* C7: a worker that loses the race for a key to another worker gets no
\* error entry for the item, and one row is stored for the key.
C7_ConflictIsNotAnError ==
    /\ \A w \in Pool : \A i \in 1..Len(mwk[w].out) : mwk[w].out[i].err # "store"
    /\ \A k \in MKeys : Len(hm[k]) <= 1

\* C8: concurrent page workers leave at most one DocumentContent row per
\* (descriptor_id, version_date): a transaction that adds one row for a
\* pair commits it only where the store holds no row for the pair.
C8_OneContentPerKeyConcurrent ==
    [][\A k \in Keys : contents'[k] = contents[k] + 1 => contents[k] = 0]_vars

\* C9: a run that has returned has one entry for each discovered item,
\* success_count + error_count = total_processed = n, and no two entries
\* for the same document_id and metrics_date.
C9_OneEntryPerItem ==
    mrun.last.total_processed >= 0 =>
        LET e == mrun.last.entries
        IN  /\ Len(e) = mrun.last.total_processed
            /\ mrun.last.success_count + mrun.last.error_count = mrun.last.total_processed
            /\ \A i, j \in 1..Len(e) :
                  i # j => /\ <<e[i].doc, e[i].c>> # <<e[j].doc, e[j].c>>
                           /\ <<e[i].doc, e[i].day>> # <<e[j].doc, e[j].day>>

\* C10: while the search of page p has soft-failed, no step of that run
\* advances the persisted current_page past p.
C10_SoftFailNotAdvanced ==
    [][\A t \in Threads :
          (thr[t].soft /\ thr[t].rec # 0)
              => recs'[thr[t].rec].cp <= thr[t].cur]_vars

\* C11: a call of search_agency_documents or get_document_content sends
\* its request at most 4 times (retry_count never passes max_retries + 1),
\* never raises, returns the soft failure when the budget is used up, and
\* every call ends.
C11_RetryBudget ==
    /\ [](cl.op \in {"search", "content"} =>
            /\ Cardinality(Sent(cl, "req")) <= max_retries + 1
            /\ cl.retry_count <= max_retries + 1
            /\ cl.ret # "raise"
            /\ (cl.pc = "done" /\ cl.retry_count > max_retries) => cl.ret = "soft"
            /\ (cl.pc = "done" /\ cl.ret = "data") => cl.log[Len(cl.log)][2] = "200")
    /\ (cl.op \in {"search", "content"} /\ cl.pc # "done") ~> (cl.pc = "done")

\* A call whose four requests all failed, 429 and other errors mixed, has
\* returned the soft failure.
C11_Exhausted ==
    /\ cl.op \in {"search", "content"} /\ cl.pc = "done" /\ cl.ret = "soft"
    /\ Cardinality(Sent(cl, "req")) = max_retries + 1
    /\ \E i, j \in 1..Len(cl.log) : cl.log[i][2] = "429" /\ cl.log[j][2] = "err"

\* C12: one call of get_document_content sends the request with the
\* corrected date at most once.
C12_CorrectionOnce ==
    cl.op = "content" => Cardinality(Sent(cl, "fix")) <= 1

\* C13: get_agency_document_count does not raise to its caller.
C13_CountDoesNotRaise ==
    cl.op = "count" => cl.ret # "raise"

\* C14: in a concurrent run the current_page of a record changes only when
\* no page worker runs, and the run changes it only after every page was
\* submitted and has finished, to total_pages together with is_complete = 2.
C14_AdvancedOnlyAtEnd ==
    [][\A r \in RecIds :
          recs'[r].cp # recs[r].cp =>
             /\ Busy = {}
             /\ thr[1].kind = "conc" =>
                   /\ thr[1].pc = "pool" /\ thr[1].next >= thr[1].tp
                   /\ r = thr[1].rec
                   /\ recs'[r].cp = thr[1].tp
                   /\ recs'[r].ic = COMPLETE]_vars

\* Both pages of a run were submitted, one worker has committed its page
\* and the other still runs; the record is where the run found it.
C14_WorkerStillRunning ==
    /\ thr[1].kind = "conc" /\ thr[1].pc = "pool"
    /\ thr[1].tp = 2 /\ thr[1].next = 2
    /\ Cardinality(Busy) = 1
    /\ \E d \in DescIds : descs[d].sidx # 0
    /\ recs[thr[1].rec].cp = 0 /\ recs[thr[1].rec].ic = IN_PROGRESS

\* C15: at most one progress record of the agency is active
\* (is_complete < 2).
C15_OneActiveRecord ==
    Cardinality(ActiveRecs) <= 1

\* C16: no two committed descriptors of the agency share a
\* structure_index.
C16_OneDescriptorPerIndex ==
    \A x \in SIdx : Cardinality(DescRows(x)) <= 1

\* C17: a descriptor that was handled has status 2 when its content was
\* stored, existed already or its hierarchy lacks title or chapter, and
\* status 3 when the fetch failed; no committed descriptor has status 1.
C17_HandledEndsCompletedOrError ==
    /\ \A t \in Threads : \A h \in thr[t].handled :
          descs[h[1]].st = IF ~HasHierarchy(h[1][1]) \/ h[2] THEN COMPLETED ELSE ERROR
    /\ \A d \in DescIds : descs[d].st # PROCESSING

\* C18: the retry-failed pass runs the content-fetch step only for
\* descriptors that had status 3 when the request was made, and when it has
\* finished it has run it for each of them and each has status 2 or 3.
C18_RetriesExactlyTheFailed ==
    \A t \in Threads :
        thr[t].kind = "failed" =>
            /\ {h[1] : h \in thr[t].handled} \subseteq thr[t].sel
            /\ thr[t].pc = "done" =>
                  /\ {h[1] : h \in thr[t].handled} = thr[t].sel
                  /\ \A d \in thr[t].sel : descs[d].st \in {COMPLETED, ERROR}

\* C19: total_pages is the least number of pages of per_page results that
\* hold total_count results (5 for 95 results by 20), and the last step of a
\* sequential run that started at page 0 leaves its record complete with
\* current_page = total_pages.
C19_RunFromZeroEndsAtTotalPages ==
    /\ [](/\ TotalPages(95, 20) = 5
          /\ \A t \in Threads :
                thr[t].kind = "seq" =>
                   /\ thr[t].tp = TotalPages(TotalCount, thr[t].pp)
                   /\ thr[t].tp * thr[t].pp >= TotalCount
                   /\ thr[t].tp > 0 => (thr[t].tp - 1) * thr[t].pp < TotalCount)
    /\ [][\A t \in Threads :
            (/\ thr[t].kind = "seq" /\ thr[t].pc = "finish" /\ thr[t].first = 0
             /\ recs' # recs)
               => /\ donePages = 0..(thr[t].tp - 1)
                  /\ recs'[thr[t].rec].ic = COMPLETE
                  /\ recs'[thr[t].rec].cp = thr[t].tp]_vars

\* A run over two pages of one result has ended: both pages committed, the
\* record complete at page 2.
C19_TwoPagesDone ==
    /\ \A t \in Threads : thr[t].kind = "idle"
    /\ donePages = {0, 1}
    /\ \E r \in AllRecs : recs[r].ic = COMPLETE /\ recs[r].cp = 2
                          /\ recs[r].tc = 2 /\ recs[r].pp = 1

\* C20: a call of compute_and_store_metrics whose content is missing, empty
\* or blank, given directly or as a document_content_id of no row or of a
\* row whose text is missing, empty or blank, raises an input error and
\* leaves the HistoricalMetrics rows as they were.
C20_InvalidInputWritesNothing ==
    [][Len(calls') = Len(calls) + 1 =>
         LET c == calls'[Len(calls')]
             given == ~Falsy(c.content)
             row == ~given /\ c.cid \in 1..Len(mconts)
             text == IF given THEN c.content
                     ELSE IF ~row THEN Null
                     ELSE IF ~Falsy(mconts[c.cid].pt) THEN mconts[c.cid].pt
                     ELSE mconts[c.cid].xml
         IN  (text = Null \/ \A i \in 1..Len(text) : text[i] = " ")
                => /\ c.err \in {"invalid", "missing"}
                   /\ c.ret = 0
                   /\ hm' = hm]_vars

\* After a call that stored a row, a call with no content and the id of a
\* row whose text is blank was rejected.
C20_Rejected ==
    \E i, j \in 1..Len(calls) :
        /\ i < j /\ calls[i].wrote
        /\ calls[j].content = Null /\ calls[j].cid \in 1..Len(mconts)
        /\ Falsy(mconts[calls[j].cid].pt) /\ mconts[calls[j].cid].xml = <<" ">>
        /\ calls[j].doc = calls[i].doc
        /\ calls[j].err = "invalid"

\* C21: once ingestion has stored a DocumentContent for a hierarchy path,
\* the Document of that path exists, and no two Documents have the same
\* path (the path stands for the document_id derived from title, chapter
\* and part).
C21_DocumentPerPath ==
    /\ \A k \in Keys :
          contents[k] > 0 => \E a \in documents : a.path = k[1][1]
    /\ \A a, b \in documents : (a.path # 0 /\ a.path = b.path) => a = b

\* ======================================== the analyzers, called on a text
\* One evaluation of a pure function of the metrics code: fn holds the
\* function called, its argument, and its result once it has returned.
TextChars == {"a", "b", "e", " ", ".", "\n", ","}
SmallTexts == UNION {[1..n -> TextChars] : n \in 0..MaxLen}

RECURSIVE Rep(_, _)
Rep(u, n) == IF n = 0 THEN <<>> ELSE u \o Rep(u, n - 1)

\* Texts of n one-word sentences, with or without a last word that no
\* punctuation follows; the word has 1 syllable or 3
Units == {<<"a", ".">>, <<"a", "b", "a", "b", "a", "b", ".">>}
LongTexts == {Rep(u, n) \o t : u \in Units, n \in 0..MaxSentences, t \in {<<>>, <<"a">>}}

\* "The cat sat. The dog ran."
Example == <<"T", "h", "e", " ", "c", "a", "t", " ", "s", "a", "t", ".", " ",
             "T", "h", "e", " ", "d", "o", "g", " ", "r", "a", "n", ".">>

\* s sentences of k words of r syllables each
BuiltWord(r) == Rep(<<"b", "a">>, r)
BuiltSentence(k, r) == Rep(BuiltWord(r) \o <<" ">>, k - 1) \o BuiltWord(r) \o <<".">>
Built(s, k, r) == Rep(BuiltSentence(k, r) \o <<" ">>, s - 1) \o BuiltSentence(k, r)
BuiltTexts == {Built(s, k, r) : s \in 1..MaxBuild, k \in 1..MaxBuild, r \in 1..MaxBuild}

WordChars == {"a", "e", "b", "y", "E", " "}
Words == UNION {[1..n -> WordChars] : n \in 0..MaxLen}

Eval(op, arg) == [op |-> op, arg |-> arg, done |-> FALSE, out |-> <<>>]

EvalInputs ==
    {Eval("analyze_content", t) : t \in {Null} \cup SmallTexts \cup LongTexts \cup {Example}}
    \cup {Eval("compute_flesch_reading_ease", t) :
             t \in (SmallTexts \ {<<>>}) \cup BuiltTexts \cup {Example}}
    \cup {Eval("count_syllables", w) : w \in Words}
    \cup {Eval("document_batches", <<w, n>>) : w \in (-1)..MaxPlan, n \in 1..MaxPlan}

evalFrame == <<corpus, today, bootDay, descs, contents, recs, thr, sess, donePages,
               hm, calls, mconts, mrun, mwk, cl, documents>>

Returns(op, out) ==
    /\ fn.op = op
    /\ ~fn.done
    /\ fn' = [fn EXCEPT !.done = TRUE, !.out = out]
    /\ UNCHANGED evalFrame

AnalyzeContent == Returns("analyze_content", analyze_content(fn.arg))
FleschReadingEase ==
    Returns("compute_flesch_reading_ease", compute_flesch_reading_ease(fn.arg))
CountSyllables == Returns("count_syllables", count_syllables(fn.arg))

\* The split of n discovered items, numbered in discovery order, for a
\* workers argument w
PlanBatches ==
    LET items == [i \in 1..fn.arg[2] |-> i]
    IN  Returns("document_batches",
                [workers |-> BatchWorkers(fn.arg[1], fn.arg[2]),
                 batches |-> document_batches(items, fn.arg[1])])

EvalInit ==
    /\ IngestIdle
    /\ cl = NoCall
    /\ hm = [k \in MKeys |-> <<>>]
    /\ calls = <<>>
    /\ mconts = <<>>
    /\ mrun = NoRun
    /\ mwk = [w \in Pool |-> NoBatch]
    /\ fn \in EvalInputs

EvalNext ==
    \/ AnalyzeContent
    \/ FleschReadingEase
    \/ CountSyllables
    \/ PlanBatches

SpecEval == EvalInit /\ [][EvalNext]_vars

Blank(t) == \A i \in 1..Len(t) : t[i] \in Whitespace

\* C22: for an empty text or a text of whitespace only, the analysis
\* returns (no error) with the three counts 0 and Flesch, SMOG, ARI and
\* the combined score 0.
C22_BlankGivesZeros ==
    (fn.op = "analyze_content" /\ fn.arg # Null /\ Blank(fn.arg) /\ fn.done)
        => /\ fn.out.word_count = 0
           /\ fn.out.sentence_count = 0
           /\ fn.out.paragraph_count = 0
           /\ fn.out.scores.flesch_reading_ease = 0
           /\ fn.out.scores.smog_index = 0
           /\ fn.out.scores.automated_readability_index = 0
           /\ fn.out.scores.readability_score = 0

\* The analysis of a text of a space and a line break has returned.
C22_BlankAnalysed ==
    fn.op = "analyze_content" /\ fn.done /\ fn.arg = <<" ", "\n">>

\* C23: whenever the sentence count an analysis reports (the runs of
\* terminal punctuation) is below 30, the SMOG score of the same result
\* is 0.
C23_FewSentencesNoSmog ==
    (fn.op = "analyze_content" /\ fn.done /\ fn.out.sentence_count < SMOG_MIN_SENTENCES)
        => fn.out.scores.smog_index = 0

\* The formula of the Flesch Reading Ease on W words, S sentences and Y
\* syllables, in thousandths: 206.835 - 1.015 * (W / S) - 84.6 * (Y / W),
\* clamped to [0, 100]
FleschOf(W, S, Y) ==
    LET x == (206835 * S * W - 1015 * W * W - 84600 * Y * S) \div (S * W)
    IN  IF x < 0 THEN 0 ELSE IF x > 100000 THEN 100000 ELSE x

NoLetters(t) == \A i \in 1..Len(t) : t[i] \in Whitespace \cup Terminal \cup Separators

\* C24: the Flesch Reading Ease of a text of W > 0 words, S > 0 sentences
\* and Y syllables is 206.835 - 1.015 * (W / S) - 84.6 * (Y / W) clamped to
\* [0, 100] (on the texts of s sentences of k words of r syllables, where
\* W = s * k, S = s and Y = s * k * r), it is 0 for a text without a word,
\* and for "The cat sat. The dog ran." (S = 2, W = 6, Y = 6) it is the
\* clamped value of the formula, 100.
C24_FleschFormula ==
    (fn.op = "compute_flesch_reading_ease" /\ fn.done)
        => /\ \A s, k, r \in 1..MaxBuild :
                 fn.arg = Built(s, k, r) => fn.out = FleschOf(s * k, s, s * k * r)
           /\ NoLetters(fn.arg) => fn.out = 0
           /\ fn.arg = Example => fn.out = FleschOf(6, 2, 6) /\ fn.out = 100000

\* The score of a text of one sentence of three words of two syllables is
\* strictly between the clamps.
C24_Unclamped ==
    /\ fn.op = "compute_flesch_reading_ease" /\ fn.done
    /\ fn.arg = Built(1, 3, 2)
    /\ fn.out = 34590

\* C25: when a fetch-all run starts for an agency that has no active
\* progress record, or with a reset requested, a record is created with
\* current_page = 0 and is_complete = 1; otherwise no record is created or
\* changed by the start, and the run continues from the existing record.
C25_StartCreatesOrContinues ==
    [][\A t \in DOMAIN thr :
          (thr[t].kind = "idle" /\ thr'[t].kind \in {"seq", "conc"})
             => IF ActiveRecs = {} \/ thr'[t].reset
                THEN \E r \in RecIds :
                        /\ ~HasRec(r)
                        /\ recs'[r].cp = 0
                        /\ recs'[r].ic = IN_PROGRESS
                ELSE recs' = recs]_vars

RECURSIVE Flatten(_)
Flatten(ss) == IF ss = <<>> THEN <<>> ELSE Head(ss) \o Flatten(Tail(ss))

\* C26: for a workers argument w and n >= 1 discovered items the
\* effective worker count is min(max(1, min(10, w)), n); the batches are
\* not empty, each has ceil(n / workers) items except that the last may
\* have fewer, one after the other they are the n items in discovery
\* order (so they are contiguous, disjoint and cover the items), and there
\* are at most as many as effective workers.
C26_BatchPlan ==
    (fn.op = "document_batches" /\ fn.done)
        => LET w == fn.arg[1]
               n == fn.arg[2]
               c10 == IF w > 10 THEN 10 ELSE w
               c1 == IF c10 < 1 THEN 1 ELSE c10
               k == IF c1 > n THEN n ELSE c1
               size == CHOOSE b \in 1..n : b * k >= n /\ (b - 1) * k < n
               bs == fn.out.batches
           IN  /\ fn.out.workers = k
               /\ Len(bs) <= k
               /\ \A i \in 1..Len(bs) :
                     /\ bs[i] # <<>>
                     /\ Len(bs[i]) <= size
                     /\ i < Len(bs) => Len(bs[i]) = size
               /\ Flatten(bs) = [i \in 1..n |-> i]

\* 12 items with 11 workers asked for: 10 workers, 6 batches of 2.
C26_FewerBatchesThanWorkers ==
    /\ fn.op = "document_batches" /\ fn.done
    /\ fn.arg = <<11, 12>>
    /\ fn.out.workers = 10
    /\ Len(fn.out.batches) = 6

\* The (document, content) pairs a run has handed to its workers: the
\* items still in a batch and the items that have an entry
Paired ==
    {<<e.doc, e.c>> : e \in UNION {{mwk[w].batch[i] : i \in 1..Len(mwk[w].batch)} : w \in Pool}}
    \cup {<<e.doc, e.c>> : e \in UNION {{mwk[w].out[i] : i \in 1..Len(mwk[w].out)} : w \in Pool}}
    \cup {<<mrun.out[i].doc, mrun.out[i].c>> : i \in 1..Len(mrun.out)}

\* C27: discovery pairs a content only with the document it belongs to: a
\* content is a content of one document, so it is never paired with two
\* documents of the agency, and the content of every pair has a text
\* (processed or raw).
C27_PairsOnlyOwnContents ==
    /\ \A p, q \in Paired : p[2] = q[2] => p[1] = q[1]
    /\ \A p \in Paired : mconts[p[2]].pt # Null \/ mconts[p[2]].xml # Null

\* C28: in a batch, the step that ends an item appends exactly one entry,
\* for that item's document; when the item failed the entry is an error
\* entry with the reason (no content, invalid content, or the store
\* write failed) and no metrics row is written; and the items after it
\* stay in the batch, with the worker back at the head of its loop.
C28_OneEntryAndLoopGoesOn ==
    [][\A w \in Pool :
          (mwk[w].pc \in {"item", "insert"} /\ mwk[w].batch # <<>>
              /\ mwk'[w].out # mwk[w].out)
             => LET it == Head(mwk[w].batch)
                    e == mwk'[w].out[Len(mwk'[w].out)]
                IN  /\ mwk'[w].out = Append(mwk[w].out, e)
                    /\ e.doc = it.doc /\ e.c = it.c
                    /\ e.ok <=> e.err = "none"
                    /\ e.err \in {"none", "no content", "invalid", "store"}
                    /\ ~e.ok => hm' = hm
                    /\ mwk'[w].batch = Tail(mwk[w].batch)
                    /\ mwk'[w].pc = "item"]_vars

\* A worker whose first item failed at the store write has a success entry
\* for its second, whose metrics are stored.
C28_StoredAfterFailure ==
    \E w \in Pool :
        /\ Len(mwk[w].out) >= 2
        /\ mwk[w].out[1].err = "store"
        /\ mwk[w].out[2].ok
        /\ hm[<<mwk[w].out[2].doc, mwk[w].out[2].day>>] # <<>>

\* C29: for a text that is not blank, the paragraph_count of the analysis
\* is the number of blocks of the text that blank lines separate (the
\* text taken without its leading and trailing whitespace).
C29_ParagraphsAreBlocks ==
    (fn.op = "analyze_content" /\ fn.done /\ fn.arg # Null /\ ~Blank(fn.arg))
        => fn.out.paragraph_count = count_paragraphs(Strip(fn.arg))

\* C30: count_syllables of a word is max(1, v), where v is the number of
\* vowels (a, e, i, o, u, y) that no vowel comes right before, counted in
\* the lower-cased word with one "e" removed from its end; it is never
\* below 1.
C30_SyllablesOfWord ==
    (fn.op = "count_syllables" /\ fn.done)
        => LET low == Strip([i \in 1..Len(fn.arg) |->
                               IF fn.arg[i] = "E" THEN "e" ELSE fn.arg[i]])
               n == IF low # <<>> /\ low[Len(low)] = "e" THEN Len(low) - 1 ELSE Len(low)
               v == Cardinality({i \in 1..n :
                       /\ low[i] \in {"a", "e", "i", "o", "u", "y"}
                       /\ i > 1 => low[i - 1] \notin {"a", "e", "i", "o", "u", "y"}})
           IN  /\ fn.out >= 1
               /\ v >= 1 => fn.out = v
               /\ v = 0 => fn.out = 1

\* "abE" has been counted: one syllable, its last letter not counted.
C30_FinalENotCounted ==
    /\ fn.op = "count_syllables" /\ fn.done
    /\ fn.arg = <<"a", "b", "E">>
    /\ fn.out = 1

\* C31: the target_year supplied when a run was started is stored on a
\* progress record of the agency (the year a later run without a year
\* would filter on).
C31_YearStored ==
    \A t \in Threads :
        (thr[t].kind # "idle" /\ thr[t].year # 0)
            => \E r \in RecIds : HasRec(r) /\ recs[r].ty = thr[t].year

\* C32: a call of get_agency_documents that found pages left returns after
\* exactly one page when process_all is false, after at most max_pages
\* pages when process_all is true and max_pages is given, and with
\* current_page = totalPages when process_all is true and max_pages is
\* not given.
C32_PagesPerCall ==
    [][\A t \in Threads :
          (thr[t].kind = "gad" /\ thr[t].pc = "finish" /\ thr'[t].kind = "idle")
             => /\ ~thr[t].all => thr[t].np = 1
                /\ (thr[t].all /\ thr[t].maxp >= 0) => thr[t].np <= thr[t].maxp
                /\ (thr[t].all /\ thr[t].maxp < 0) => thr[t].cur = thr[t].tp]_vars

\* C33: a concurrent run marks its record COMPLETE only if every page
\* worker of the run committed its page: when a worker rolled its page
\* back the record is left not complete.
C33_CompleteOnlyIfAllCommitted ==
    [][(thr[1].kind = "conc" /\ thr[1].rec # 0
           /\ recs[thr[1].rec].ic # COMPLETE /\ recs'[thr[1].rec].ic = COMPLETE)
          => thr[1].lost = {}]_vars

\* C34: when process_search_result fails on a result and returns None (the
\* loop goes to the next result of the page), what the page transaction
\* has staged for the earlier results of the page stays staged: the
\* descriptors flushed and the contents added are still in the session,
\* so that the page's commit stores them.
C34_FailureKeepsOtherResults ==
    [][\A t \in Threads :
          (InPage(t) /\ thr[t].pc = "result" /\ thr'[t].kind = thr[t].kind
              /\ thr'[t].res = Tail(thr[t].res))
             => /\ \A d \in DescIds :
                      sess[t].sd[d].how \in {"ins", "upd"} => sess'[t].sd[d] = sess[t].sd[d]
                /\ sess'[t].pend = sess[t].pend
                /\ sess'[t].flc = sess[t].flc]_vars

\* ------------------------------ two sequential runs for the same agency
\* Two fetch-all requests without reset, each with a background task and
\* a session of its own, running at the same time; no flush and no commit
\* fails.
TwoRuns == {1, 2}

TwoNext ==
    \/ \E t \in TwoRuns, n \in PerPages :
          FetchAll(t, n, FALSE, FALSE, 0, 0)
    \/ \E t \in TwoRuns :
          \/ SeqStart(t)
          \/ SeqSearch(t)
          \/ ResultCompleted(t)
          \/ ResultUpdate(t)
          \/ ResultCreate(t)
          \/ GetAndStoreDocumentContent(t)
          \/ SeqCommit(t)
          \/ SeqFinish(t)

SpecTwo == Init /\ [][TwoNext]_vars

\* C35: the stored current_page of a progress record decreases only in
\* the step of a request that asks for a reset (fetch-all takes no
\* start_page), also when two runs for the agency are active at once.
C35_CurrentPageMonotone ==
    [][\A r \in RecIds :
          (HasRec(r) /\ recs'[r].cp < recs[r].cp)
             => \E t \in Threads :
                   thr[t].kind = "idle" /\ thr'[t].kind # "idle" /\ thr'[t].reset]_vars

\* C36: a stored descriptor whose processing_status is 2 (completed)
\* keeps status 2 in every step of a later ingestion: it is never moved to
\* 1 (processing) or 3 (error).
C36_CompletedStaysCompleted ==
    [][\A d \in DescIds :
          descs[d].st = COMPLETED => descs'[d].st = COMPLETED]_vars

\* C37: the version_date of a DocumentContent that was just added is the
\* date of the version whose markup the client returned: the date asked
\* for, or the corrected date when the client recovered from a "most
\* recent issue date" answer.
C37_VersionDateIsFetchedDate ==
    cl.stored = "added" => mconts[Len(mconts)].vd = cl.got

\* C38: for every text that is not blank, the sentence_count an analysis
\* reports equals the number of sentences the readability formulas
\* (Flesch, SMOG threshold, ARI) divide by for the same text.
C38_ReportedSentencesAreFormulaSentences ==
    (fn.op = "analyze_content" /\ fn.done /\ ~Blank(fn.arg))
        => fn.out.sentence_count
              = Cardinality(get_sentences(Printable(Strip(fn.arg))))

\* C39: when a run of compute_metrics_for_all_documents has returned
\* error_count = 0 and nothing else wrote to the store, the run that
\* follows discovers no document (total_processed = 0), returns at once
\* and writes no metrics row.
C39_RunAfterCleanRunFindsNothing ==
    [][(/\ mrun.pc = "idle" /\ mrun.runs >= 1
        /\ mrun.last.error_count = 0
        /\ mrun'.runs = mrun.runs + 1)
          => /\ mrun'.pc = "idle"
             /\ mrun'.last.total_processed = 0
             /\ mrun'.last.entries = <<>>
             /\ hm' = hm]_vars

\* A second run has returned with nothing discovered after a first run
\* that stored the metrics of every pair: the contents have distinct
\* version dates and every (document, version_date) has its one row, so
\* the first run had a success entry for each pair and no error.
C39_SecondRunEmpty ==
    /\ mrun.runs = 2 /\ mrun.pc = "idle"
    /\ mrun.last.total_processed = 0
    /\ \A i, j \in 1..Len(mconts) : i # j => mconts[i].vd # mconts[j].vd
    /\ \A doc \in Docs, c \in 1..Len(mconts) : Len(hm[<<doc, mconts[c].vd>>]) = 1

====
